---- MODULE Spec2Model ----
(***************************************************************************)
(* A model of flexflow.serve.serve (class LLM): the on-disk cache of       *)
(* tokenizer and weight files with its rev_sha.txt marker, the session     *)
(* life cycle (compile, start_server, stop_server, __del__, atexit), and   *)
(* the normalisation and validation of generation requests.                *)
(***************************************************************************)
EXTENDS Integers, Sequences, FiniteSets, TLC

(***************************************************************************)
(* Bounds of the model.                                                    *)
(***************************************************************************)
\* Each repository on the hub goes through at most this many commits.
MaxRev == 2

\* The largest max_seq_length a compile call passes.
MaxSeqLen == 2

\* compile is called at most this many times per behaviour.
MaxCompiles == 1

\* The engine's generate is dispatched at most this many times per behaviour.
MaxCalls == 2

\* Explicit stop_server calls per behaviour at most.
MaxStops == 2

(***************************************************************************)
(* Names, revisions and cache paths.                                       *)
(***************************************************************************)
\* self.model_name of the session, and the id of a PEFT adapter repository.
ModelName == "Org/Base"

PeftName == "org/adapter"

Repos == {ModelName, PeftName}

\* str.lower() on the names above.
Lower(name) ==
    CASE name = "Org/Base" -> "org/base"
      [] name = "org/base" -> "org/base"
      [] name = "org/adapter" -> "org/adapter"

\* A revision is a commit of one repository; NoRev stands for None.
NoRev == <<"none", 0>>

Revisions == Repos \X (1..MaxRev)

DataTypes == {"DT_HALF", "DT_FLOAT"}

\* The weights folder without the precision.
ResourcePath_NoPrecision(model_name, resource_type, dt) ==
    IF resource_type = "WEIGHTS"
    THEN <<"weights", Lower(model_name), "">>
    ELSE <<"tokenizers", Lower(model_name), "">>

\* LLM.__get_resource_path: the folder of a (model, resource type) pair.
ResourcePath(model_name, resource_type, dt) ==
    IF resource_type = "WEIGHTS"
    THEN <<"weights", Lower(model_name),
           IF dt = "DT_FLOAT" THEN "full-precision" ELSE "half-precision">>
    ELSE <<"tokenizers", Lower(model_name), "">>

\* The folder the adapter's config.json is copied to.
PeftConfigDir(peft_id) == <<"configs", Lower(peft_id), "">>

\* download_hf_config's config_dir (lines 182-184).
ConfigDir(model_name) == <<"configs", Lower(model_name), "">>

Paths ==
    {ResourcePath(n, "WEIGHTS", dt) : n \in Repos, dt \in DataTypes}
    \cup {ResourcePath(ModelName, "TOKENIZER", "DT_HALF")}
    \cup {ConfigDir(n) : n \in Repos}

\* A directory: whether it exists, the content of rev_sha.txt (NoRev: no such
\* file), how much of the population has been written, and the revision the
\* written files were downloaded at.
AbsentDir == [exists |-> FALSE, marker |-> NoRev, files |-> "none", src |-> NoRev]

EmptyDir == [exists |-> TRUE, marker |-> NoRev, files |-> "none", src |-> NoRev]

\* The folder is left in place.
RmtreeFs_Keep(f, path) == f

\* shutil.rmtree(path), guarded by os.path.exists (lines 279-280).
RmtreeFs(f, path) == IF f[path].exists THEN [f EXCEPT ![path] = AbsentDir] ELSE f

\* os.makedirs(path, exist_ok=True) (line 281).
MakedirsFs(f, path) == IF f[path].exists THEN f ELSE [f EXCEPT ![path] = EmptyDir]

\* open(rev_sha.txt, "w+").write(rev) (lines 282-284).
WriteMarkerFs(f, path, rev) == [f EXCEPT ![path].marker = rev]

\* Every file of a population downloaded at revision src is in the folder.
PopulatedFs(f, path, src) ==
    [f EXCEPT ![path] = [exists |-> TRUE, marker |-> @.marker, files |-> "full",
                         src |-> src]]

Procs == {1, 2}

VARIABLES
    fs,             \* Paths -> directory
    remote,         \* Repos -> number of the repository's latest commit
    func,           \* the download function the behaviour exercises
    pc,             \* Procs -> position of the process inside that function
    refresh_cache,  \* Procs -> self.refresh_cache
    data_type,      \* Procs -> self.data_type
    loc,            \* Procs -> locals and trace of the current/last call
    win,            \* Paths -> results of the latest consecutive unforced calls
    sess,           \* the attributes of the LLM / SSM object
    engine,         \* the request manager and model of the execution engine
    heap,           \* the Request objects the calling script holds
    last,           \* the latest operation on the session and how it ended
    loras,          \* the LoraLinearConfig objects the script holds
    hf_model,       \* the HuggingFace model under conversion and the files written
    local_dir,      \* the directory self.model_name names, when it names one
    caller,         \* the kind of input the calling script passes to generate
    exited          \* the process has exited

cacheVars == <<fs, remote, func, pc, refresh_cache, data_type, loc, win>>

sessVars == <<sess, engine, heap, last, loras, hf_model, local_dir, caller, exited>>

vars == <<cacheVars, sessVars>>

Funcs == {"weights", "tokenizer", "peft"}

\* The (model_name, resource_type) each download function passes on.
CallName(f) == IF f = "peft" THEN PeftName ELSE ModelName

CallKind(f) == IF f = "tokenizer" THEN "TOKENIZER" ELSE "WEIGHTS"

NoCall ==
    [path |-> <<"", "", "">>, ff_revision |-> NoRev, latest_revision |-> NoRev,
     existed |-> FALSE, ret |-> "none", ops |-> <<>>, dl |-> NoRev,
     src_changed |-> FALSE]

\* LLM.__get_revision_hashes, the remote branch: the marker's content and the
\* sha of self.model_name on the hub (the model_name argument is not used).
RevisionHashes(f, hub, model_name, folder) ==
    <<f[folder].marker, <<ModelName, hub[ModelName]>>>>

\* The condition without its comparison of revisions.
NeedRefresh_NoRevisionTest(force, exists, ff_revision, latest_revision) ==
    force \/ ~exists

\* The condition of line 275.
NeedRefresh(force, exists, ff_revision, latest_revision) ==
    force \/ ~exists \/ ff_revision # latest_revision

\* A call of the download function under study begins.
Call(p) ==
    /\ pc[p] = "idle"
    /\ pc' = [pc EXCEPT ![p] = "check"]
    /\ loc' = [loc EXCEPT ![p] = NoCall]
    /\ UNCHANGED <<sessVars, fs, remote, func, refresh_cache, data_type, win>>

\* The window of consecutive unforced calls of a folder, after one more call.
\* A forced call, and a call during which a source got a new commit, end it.
PushWin(w, force, refreshed) ==
    IF force THEN <<>>
    ELSE IF Len(w) < 2 THEN Append(w, refreshed) ELSE <<w[2], refreshed>>

\* __need_cache_refresh, lines 273-275 and 286: read the revisions and decide.
Check(p) ==
    /\ pc[p] = "check"
    /\ LET path == ResourcePath(CallName(func), CallKind(func), data_type[p])
           revs == RevisionHashes(fs, remote, ModelName, path)
           need == NeedRefresh(refresh_cache[p], fs[path].exists, revs[1], revs[2])
       IN  /\ loc' = [loc EXCEPT ![p] =
                        [loc[p] EXCEPT !.path = path, !.ff_revision = revs[1],
                                       !.latest_revision = revs[2],
                                       !.existed = fs[path].exists,
                                       !.ret = IF need THEN "none" ELSE "False"]]
           /\ pc' = [pc EXCEPT ![p] = IF need THEN "rmtree" ELSE "idle"]
           /\ win' = IF need THEN win
                     ELSE [win EXCEPT ![path] =
                             PushWin(@, refresh_cache[p] \/ loc[p].src_changed, FALSE)]
    /\ UNCHANGED <<sessVars, fs, remote, func, refresh_cache, data_type>>

\* A failed revision query that removes the folder as a refresh would.
QueryFails_Rmtree(f, path) == RmtreeFs(f, path)

\* The file system after __need_cache_refresh when the query of the latest
\* revision raises (lines 274, 227): the exception leaves the function before
\* the test of line 275, so lines 279-284 do not run.
QueryFails(f, path) == f

\* hf_api.model_info raises: the source is unreachable.
RevisionQueryFails(p) ==
    /\ pc[p] = "check"
    /\ pc' = [pc EXCEPT ![p] = "idle"]
    /\ loc' = [loc EXCEPT ![p] =
                 [NoCall EXCEPT !.path = ResourcePath(CallName(func), CallKind(func),
                                                      data_type[p]),
                                !.ret = "error"]]
    /\ win' = [win EXCEPT ![ResourcePath(CallName(func), CallKind(func),
                                         data_type[p])] = <<>>]
    /\ fs' = QueryFails(fs, ResourcePath(CallName(func), CallKind(func),
                                         data_type[p]))
    /\ UNCHANGED <<sessVars, remote, func, refresh_cache, data_type>>

\* Lines 279-280: shutil.rmtree of an existing folder.
Rmtree(p) ==
    /\ pc[p] = "rmtree"
    /\ pc' = [pc EXCEPT ![p] = "makedirs"]
    /\ IF fs[loc[p].path].exists
       THEN /\ fs' = RmtreeFs(fs, loc[p].path)
            /\ loc' = [loc EXCEPT ![p].ops = Append(@, "rmtree")]
       ELSE UNCHANGED <<fs, loc>>
    /\ UNCHANGED <<sessVars, remote, func, refresh_cache, data_type, win>>

\* Line 281: os.makedirs(resource_path, exist_ok=True).
Makedirs(p) ==
    /\ pc[p] = "makedirs"
    /\ pc' = [pc EXCEPT ![p] = "marker"]
    /\ fs' = MakedirsFs(fs, loc[p].path)
    /\ loc' = [loc EXCEPT ![p].ops = Append(@, "makedirs")]
    /\ UNCHANGED <<sessVars, remote, func, refresh_cache, data_type, win>>

\* The marker rewritten with the revision it already held.
MarkerWritten_Stale(ff_revision, latest_revision) == ff_revision

\* Lines 282-284: what is written into rev_sha.txt.
MarkerWritten(ff_revision, latest_revision) == latest_revision

\* Lines 282-285: write rev_sha.txt (open with "w+" creates the file, and the
\* folder must exist) and return True.
WriteMarker(p) ==
    /\ pc[p] = "marker"
    /\ fs[loc[p].path].exists
    /\ pc' = [pc EXCEPT ![p] = "populate"]
    /\ fs' = WriteMarkerFs(fs, loc[p].path,
                           MarkerWritten(loc[p].ff_revision, loc[p].latest_revision))
    /\ loc' = [loc EXCEPT ![p].ops = Append(@, "write"), ![p].ret = "True"]
    /\ win' = [win EXCEPT ![loc[p].path] =
                             PushWin(@, refresh_cache[p] \/ loc[p].src_changed, TRUE)]
    /\ UNCHANGED <<sessVars, remote, func, refresh_cache, data_type>>

\* Line 282 when another process has removed the folder since line 281:
\* open raises FileNotFoundError and the download function ends with it.
WriteMarkerFails(p) ==
    /\ pc[p] = "marker"
    /\ ~fs[loc[p].path].exists
    /\ pc' = [pc EXCEPT ![p] = "idle"]
    /\ loc' = [loc EXCEPT ![p].ret = "error"]
    /\ win' = [win EXCEPT ![loc[p].path] = <<>>]
    /\ UNCHANGED <<sessVars, fs, remote, func, refresh_cache, data_type>>

\* The population callback starts: from_pretrained / snapshot_download fetch the
\* repository named by the call at its revision of that moment. The adapter's
\* adapter_config.json is copied to its configs folder first (lines 378-389).
Download(p) ==
    /\ pc[p] = "populate"
    /\ pc' = [pc EXCEPT ![p] = "convert"]
    /\ loc' = [loc EXCEPT ![p].dl = <<CallName(func), remote[CallName(func)]>>]
    /\ fs' = IF func = "peft"
             THEN PopulatedFs(fs, PeftConfigDir(PeftName),
                              <<PeftName, remote[PeftName]>>)
             ELSE fs
    /\ UNCHANGED <<sessVars, remote, func, refresh_cache, data_type, win>>

\* convert_hf_model / the copy loop / tofile: files are written one by one
\* (convert_hf_model creates the folder if it is missing).
WriteSome(p) ==
    /\ pc[p] = "convert"
    /\ fs[loc[p].path].files = "none"
    /\ fs' = [fs EXCEPT ![loc[p].path] =
                 [exists |-> TRUE, marker |-> @.marker, files |-> "partial",
                  src |-> loc[p].dl]]
    /\ UNCHANGED <<sessVars, remote, func, pc, refresh_cache, data_type, loc, win>>

\* The last file is written and the download function returns.
WriteRest(p) ==
    /\ pc[p] = "convert"
    /\ fs[loc[p].path].files = "partial"
    /\ fs' = PopulatedFs(fs, loc[p].path, loc[p].dl)
    /\ pc' = [pc EXCEPT ![p] = "idle"]
    /\ UNCHANGED <<sessVars, remote, func, refresh_cache, data_type, loc, win>>

\* The population raises (network, disk, conversion) or the process is killed
\* during it: the folder stays as it is.
PopulationFails(p) ==
    /\ pc[p] \in {"populate", "convert"}
    /\ pc' = [pc EXCEPT ![p] = "idle"]
    /\ UNCHANGED <<sessVars, fs, remote, func, refresh_cache, data_type, loc, win>>

\* The process is killed inside __need_cache_refresh's rewrite of the folder.
Crash(p) ==
    /\ pc[p] \in {"rmtree", "makedirs", "marker"}
    /\ pc' = [pc EXCEPT ![p] = "idle"]
    /\ loc' = [loc EXCEPT ![p].ret = "error"]
    /\ win' = [win EXCEPT ![loc[p].path] = <<>>]
    /\ UNCHANGED <<sessVars, fs, remote, func, refresh_cache, data_type>>

\* Another LLM object is constructed on the same cache (lines 108-111).
NewSession(p) ==
    /\ pc[p] = "idle"
    /\ \E rc \in BOOLEAN :
          /\ rc # refresh_cache[p]
          /\ refresh_cache' = [refresh_cache EXCEPT ![p] = rc]
    /\ loc' = [loc EXCEPT ![p] = NoCall]
    /\ UNCHANGED <<sessVars, fs, remote, func, pc, data_type, win>>

\* A repository on the hub receives a commit.
RemoteUpdate(r) ==
    /\ remote[r] < MaxRev
    /\ remote' = [remote EXCEPT ![r] = @ + 1]
    /\ win' = [q \in Paths |-> <<>>]
    /\ loc' = [p \in Procs |->
                 [loc[p] EXCEPT !.src_changed = @ \/ pc[p] \notin {"idle", "off"}]]
    /\ UNCHANGED <<sessVars, fs, func, pc, refresh_cache, data_type>>

(***************************************************************************)
(* The session: compile, the server life cycle, generate.                  *)
(***************************************************************************)
\* The process that owns the session object.
Owner == CHOOSE p \in Procs : \A q \in Procs : p <= q

\* The value of max_length / max_new_tokens that stands for "not given".
Unset == -1

\* Texts are sequences of characters.
Request(req_type, prompt, max_length, max_new_tokens, add_special_tokens) ==
    [req_type |-> req_type, prompt |-> prompt, max_length |-> max_length,
     max_new_tokens |-> max_new_tokens, add_special_tokens |-> add_special_tokens]

\* A value the caller passes to generate, or an element of such a list: its
\* Python type t, and by type the text of a str, the index of a Request object
\* on the heap, the keys and content of a dict, the elements of a list.
Value(t, text, ref, keys, elems) ==
    [t |-> t, text |-> text, ref |-> ref, keys |-> keys, elems |-> elems]

VStr(text) == Value("str", text, 0, {}, <<>>)

VReq(i) == Value("Request", <<>>, i, {}, <<>>)

VDict(keys, content) == Value("dict", content, 0, keys, <<>>)

VList(elems) == Value("list", <<>>, 0, {}, elems)

VInt == Value("int", <<>>, 0, {}, <<>>)

\* The peft_model_id of a config that has none (None).
NoneId == "<None>"

\* A LoraLinearConfig object as far as serve.py reads it (lines 126-142);
\* obj is "None" for the value None passed in place of a config.
LoraLinearConfig(peft_model_id, trainable, init_lora_weights, rank) ==
    [obj |-> "LoraLinearConfig", peft_model_id |-> peft_model_id,
     trainable |-> trainable, init_lora_weights |-> init_lora_weights,
     rank |-> rank]

NoneConfig ==
    [obj |-> "None", peft_model_id |-> NoneId, trainable |-> FALSE,
     init_lora_weights |-> FALSE, rank |-> 0]

\* hf_config.architectures: None, or a list of names.
NoneArchitectures == [none |-> TRUE, names |-> <<>>]

HfArchitectures(names) == [none |-> FALSE, names |-> names]

\* What one operation leaves behind for inspection. For register and lookup:
\* config is the argument, fetched tells that PeftConfig.from_pretrained was
\* called, checked that the base-model comparison of line 151 was evaluated,
\* handle is the PEFTModelID returned. For compile: fetched tells that
\* download_hf_config fetched the model's config. For the constructor:
\* architectures is hf_config.architectures.
NoLast ==
    [op |-> "none", input |-> VInt, max_length |-> Unset, max_new_tokens |-> Unset,
     outcome |-> "none", err |-> "none", outputs |-> <<>>, submitted |-> <<>>, resolved |-> <<>>, at |-> 0,
     batch |-> <<>>,
     dispatched |-> FALSE, warned |-> FALSE,
     config |-> NoneConfig, fetched |-> FALSE, checked |-> FALSE, handle |-> 0,
     architectures |-> NoneArchitectures]

\* The default without the "- 1".
DefaultMaxLength_NoMinusOne(max_seq_length) == max_seq_length

\* Lines 558 and 577: the max_length given to a request that names none.
DefaultMaxLength(max_seq_length) == max_seq_length - 1

\* max_length left as it was given.
BothSetMaxLength_Kept(max_length) == max_length

\* Line 563: max_length after the warning that both bounds are set.
BothSetMaxLength(max_length) == Unset

\* The comparison with > in place of >=.
ExceedsBound_Strict(v, max_seq_length) == v > max_seq_length

\* Lines 565-566 and 578: the comparison with the maximum sequence length.
ExceedsBound(v, max_seq_length) == v >= max_seq_length

\* The comparison of max_length alone.
CheckBounds_MaxLengthOnly(r, has_msl, msl, warn) ==
    [req |-> r,
     err |-> IF ~has_msl THEN "AttributeError"
             ELSE IF ExceedsBound(r.max_length, msl) THEN "ValueError_exceeds"
             ELSE "none",
     warn |-> warn]

\* What one pass of _generate's loop body leaves: the request, the exception
\* raised if any, and whether it warned.
Validated(req, err, warn) == [req |-> req, err |-> err, warn |-> warn]

\* Lines 564-581: the comparison of a request's bounds with
\* self.max_seq_length; reading that attribute raises when compile never set it.
CheckBounds(r, has_msl, msl, warn) ==
    IF ~has_msl THEN Validated(r, "AttributeError", warn)
    ELSE IF \/ ExceedsBound(r.max_length, msl)
            \/ r.req_type = "REQ_INFERENCE" /\ ExceedsBound(r.max_new_tokens, msl)
         THEN Validated(r, "ValueError_exceeds", warn)
         ELSE Validated(r, "none", warn)

\* The default of a finetuning request is stored in max_new_tokens.
ValidateOne_DefaultInNewTokens(r, has_msl, msl) ==
    IF r.req_type = "REQ_INFERENCE"
    THEN IF r.max_length = Unset /\ r.max_new_tokens = Unset
         THEN IF ~has_msl THEN Validated(r, "AttributeError", FALSE)
              ELSE CheckBounds([r EXCEPT !.max_length = DefaultMaxLength(msl)],
                               has_msl, msl, FALSE)
         ELSE IF r.max_length # Unset /\ r.max_new_tokens # Unset
              THEN CheckBounds([r EXCEPT !.max_length = BothSetMaxLength(r.max_length)],
                               has_msl, msl, TRUE)
              ELSE CheckBounds(r, has_msl, msl, FALSE)
    ELSE IF r.max_new_tokens # Unset
         THEN Validated(r, "ValueError_finetune", FALSE)
         ELSE IF r.max_length = Unset
              THEN IF ~has_msl THEN Validated(r, "AttributeError", FALSE)
                   ELSE CheckBounds([r EXCEPT !.max_new_tokens = DefaultMaxLength(msl)],
                                    has_msl, msl, FALSE)
              ELSE CheckBounds(r, has_msl, msl, FALSE)

\* _generate's loop body for one request (lines 555-581).
\* has_msl: self.max_seq_length exists (compile has set it).
ValidateOne(r, has_msl, msl) ==
    IF r.req_type = "REQ_INFERENCE"
    THEN IF r.max_length = Unset /\ r.max_new_tokens = Unset
         THEN IF ~has_msl THEN Validated(r, "AttributeError", FALSE)
              ELSE CheckBounds([r EXCEPT !.max_length = DefaultMaxLength(msl)],
                               has_msl, msl, FALSE)
         ELSE IF r.max_length # Unset /\ r.max_new_tokens # Unset
              THEN CheckBounds([r EXCEPT !.max_length = BothSetMaxLength(r.max_length)],
                               has_msl, msl, TRUE)
              ELSE CheckBounds(r, has_msl, msl, FALSE)
    ELSE IF r.max_new_tokens # Unset
         THEN Validated(r, "ValueError_finetune", FALSE)
         ELSE IF r.max_length = Unset
              THEN IF ~has_msl THEN Validated(r, "AttributeError", FALSE)
                   ELSE CheckBounds([r EXCEPT !.max_length = DefaultMaxLength(msl)],
                                    has_msl, msl, FALSE)
              ELSE CheckBounds(r, has_msl, msl, FALSE)

RECURSIVE ValidateAll(_, _, _, _, _)
\* The loop after its i-th pass left v: the exception ends it, otherwise the
\* next request is looked at.
ValidateNext(ids, store, has_msl, msl, i, v) ==
    IF v.err # "none"
    THEN [store |-> [store EXCEPT ![ids[i]] = v.req], err |-> v.err,
          warned |-> v.warn, at |-> i]
    ELSE [ValidateAll(ids, [store EXCEPT ![ids[i]] = v.req], has_msl, msl, i + 1)
            EXCEPT !.warned = @ \/ v.warn]

\* _generate's loop (lines 554-581) from the i-th request on. ids are indices
\* into store, the Request objects in memory; the loop changes them in place
\* and stops at the first exception (at: the request that raised it, 0: none).
ValidateAll(ids, store, has_msl, msl, i) ==
    IF i > Len(ids)
    THEN [store |-> store, err |-> "none", warned |-> FALSE, at |-> 0]
    ELSE ValidateNext(ids, store, has_msl, msl, i,
                      ValidateOne(store[ids[i]], has_msl, msl))

\* The engine's answer to one request: the prompt followed by generated text.
EngineOutput(req) == req.prompt \o <<"!">>

\* How a call of generate ends: what it returns or raises, the caller's
\* Request objects afterwards, the requests as they were when _generate got
\* them and as its loop left them, the request that raised, whether the engine
\* was called and with which batch.
Ended(outcome, err, outputs, store, submitted, dispatched, batch, warned, tok) ==
    [outcome |-> outcome, err |-> err, outputs |-> outputs,
     heap |-> SubSeq(store, 1, Len(heap)), submitted |-> submitted,
     resolved |-> batch, at |-> 0,
     dispatched |-> dispatched, batch |-> batch, warned |-> warned,
     tokenizer |-> tok]

\* The requests before the one that raised are given to the engine.
Dispatch_ValidPrefix(ids, store, s, tok, v) ==
    IF v.err # "none"
    THEN [Ended("error", v.err, <<>>, v.store,
                [i \in 1..Len(ids) |-> store[ids[i]]], v.at > 1,
                [i \in 1..(v.at - 1) |-> v.store[ids[i]]], v.warned, tok)
            EXCEPT !.resolved = [i \in 1..Len(ids) |-> v.store[ids[i]]],
                   !.at = v.at]
    ELSE Ended("list", "none",
               [i \in 1..Len(ids) |-> EngineOutput(v.store[ids[i]])],
               v.store, [i \in 1..Len(ids) |-> store[ids[i]]], TRUE,
               [i \in 1..Len(ids) |-> v.store[ids[i]]], v.warned, tok)

\* Line 582 after the loop left v: self.model.ffmodel.generate(requests), which
\* is reached only when no exception was raised and needs self.model.
Dispatch(ids, store, s, tok, v) ==
    IF v.err # "none"
    THEN [Ended("error", v.err, <<>>, v.store,
                [i \in 1..Len(ids) |-> store[ids[i]]], FALSE, <<>>, v.warned, tok)
            EXCEPT !.resolved = [i \in 1..Len(ids) |-> v.store[ids[i]]],
                   !.at = v.at]
    ELSE IF "model" \notin s.defined
         THEN [Ended("error", "AttributeError", <<>>, v.store,
                     [i \in 1..Len(ids) |-> store[ids[i]]], FALSE, <<>>, v.warned,
                     tok)
                 EXCEPT !.resolved = [i \in 1..Len(ids) |-> v.store[ids[i]]]]
         ELSE Ended("list", "none",
                    [i \in 1..Len(ids) |-> EngineOutput(v.store[ids[i]])],
                    v.store, [i \in 1..Len(ids) |-> store[ids[i]]], TRUE,
                    [i \in 1..Len(ids) |-> v.store[ids[i]]], v.warned, tok)

\* LLM._generate (lines 551-582) on the requests store[ids[1]], store[ids[2]], ...
GenerateRequests(ids, store, s, tok) ==
    IF Len(ids) = 0
    THEN Ended("list", "none", <<>>, store, <<>>, FALSE, <<>>, FALSE, tok)
    ELSE Dispatch(ids, store, s, tok,
                  ValidateAll(ids, store, "max_seq_length" \in s.defined,
                              s.max_seq_length, 1))

\* The messages must have a role only.
IsMessage_RoleOnly(m) == m.t = "dict" /\ "role" \in m.keys

\* The outputs are returned as the engine gave them.
Output2ChatResponse_Unstripped(prompt, output_text) == output_text

\* A chat message as __chat2prompt accepts it (lines 594-598).
IsMessage(m) == m.t = "dict" /\ "role" \in m.keys /\ "content" \in m.keys

RECURSIVE Render(_)
\* tokenizer.apply_chat_template(messages, add_generation_prompt=True): every
\* message's content behind a role tag, then the generation prompt.
Render(messages) ==
    IF Len(messages) = 0 THEN <<">">>
    ELSE <<"<">> \o Head(messages).text \o Render(Tail(messages))

\* The messages of a value __chat2prompt iterates over: the elements of a list;
\* iterating a str or a dict yields strings, which are no messages.
Iterated(v) ==
    IF v.t = "list" THEN v.elems
    ELSE IF v.t = "str" THEN [i \in 1..Len(v.text) |-> VStr(<<v.text[i]>>)]
    ELSE IF v.t = "dict" THEN [i \in 1..Cardinality(v.keys) |-> VStr(<<"k">>)]
    ELSE <<>>

\* Lines 585-610 on the messages iterated.
PromptOf(messages, s, tok) ==
    IF \E i \in 1..Len(messages) : ~IsMessage(messages[i])
    THEN [err |-> "ValueError_message", prompt |-> <<>>, tokenizer |-> tok]
    ELSE IF ~s.chat_template
    THEN [err |-> "ValueError_template", prompt |-> <<>>, tokenizer |-> TRUE]
    ELSE [err |-> "none", prompt |-> Render(messages), tokenizer |-> TRUE]

\* LLM.__chat2prompt (lines 584-610): the prompt or the exception, and whether
\* self.tokenizer is loaded afterwards.
Chat2Prompt(v, s, tok) ==
    IF v.t \notin {"list", "str", "dict"}
    THEN [err |-> "TypeError", prompt |-> <<>>, tokenizer |-> tok]
    ELSE PromptOf(Iterated(v), s, tok)

\* LLM.__output2chat_response (lines 612-618): drop len(prompt) characters.
Output2ChatResponse(prompt, output_text) ==
    SubSeq(output_text, Len(prompt) + 1, Len(output_text))

\* Lines 673 and 689: the outputs of _generate stripped of their prompts.
ChatResponses(cs, r) ==
    IF r.outcome # "list" THEN r
    ELSE [r EXCEPT !.outputs =
             [i \in 1..Len(cs) |-> Output2ChatResponse(cs[i].prompt, r.outputs[i])]]

\* The first prompt that raised.
FirstBad(cs) ==
    CHOOSE i \in 1..Len(cs) :
        cs[i].err # "none" /\ \A j \in 1..(i - 1) : cs[j].err = "none"

\* Lines 664-673 and 675-689 once the prompts cs are rendered: the first
\* exception ends the call, otherwise one request per prompt.
GeneratePrompts(cs, max_length, max_new_tokens, s, h) ==
    IF \E i \in 1..Len(cs) : cs[i].err # "none"
    THEN Ended("error", cs[FirstBad(cs)].err, <<>>, h, <<>>, FALSE, <<>>, FALSE,
               cs[FirstBad(cs)].tokenizer)
    ELSE ChatResponses(cs,
             GenerateRequests([i \in 1..Len(cs) |-> Len(h) + i],
                              h \o [i \in 1..Len(cs) |->
                                      Request("REQ_INFERENCE", cs[i].prompt,
                                              max_length, max_new_tokens, FALSE)],
                              s, TRUE))

\* The chat branches of generate (lines 663-689): prompts rendered from the
\* message lists in order; the tokenizer is loaded once a list has passed the
\* message test.
GenerateChat(lists, max_length, max_new_tokens, s, h) ==
    GeneratePrompts([i \in 1..Len(lists) |->
                       Chat2Prompt(lists[i], s, s.tokenizer \/ i > 1)],
                    max_length, max_new_tokens, s, h)

\* The test of the empty list alone.
EmptyInput_ListOnly(x) == x.t = "list" /\ Len(x.elems) = 0

\* Lines 638 and 651: len(requests_or_prompts) == 0.
EmptyInput(x) == IF x.t = "str" THEN Len(x.text) = 0 ELSE Len(x.elems) = 0

\* The requests in reverse order of the prompts.
StrRequests_Reversed(elems, max_length, max_new_tokens) ==
    [i \in 1..Len(elems) |->
        Request("REQ_INFERENCE", elems[Len(elems) + 1 - i].text, max_length,
                max_new_tokens, TRUE)]

\* Lines 654-662: one Inference request per element of a list whose first
\* element is a str, the element as its prompt (elements of another type are
\* taken as they are: their content stands for them).
StrRequests(elems, max_length, max_new_tokens) ==
    [i \in 1..Len(elems) |->
        Request("REQ_INFERENCE", elems[i].text, max_length, max_new_tokens, TRUE)]

\* Lines 653-693: a non-empty list, by the type of its first element.
GenerateList(x, max_length, max_new_tokens, s, h) ==
    CASE x.elems[1].t = "str" ->
            GenerateRequests(
                [i \in 1..Len(x.elems) |-> Len(h) + i],
                h \o StrRequests(x.elems, max_length, max_new_tokens),
                s, s.tokenizer)
      [] x.elems[1].t = "dict" ->
            GenerateChat(<<x>>, max_length, max_new_tokens, s, h)
      [] x.elems[1].t = "list" ->
            GenerateChat(x.elems, max_length, max_new_tokens, s, h)
      [] x.elems[1].t = "Request" ->
            GenerateRequests([i \in 1..Len(x.elems) |-> x.elems[i].ref], h, s,
                             s.tokenizer)
      [] OTHER ->
            Ended("None", "none", <<>>, h, <<>>, FALSE, <<>>, FALSE, s.tokenizer)

\* LLM.generate (lines 620-696) on input x with the keyword arguments given.
Generate(x, max_length, max_new_tokens, s, h) ==
    CASE x.t = "str" ->
            IF EmptyInput(x)
            THEN Ended("list", "none", <<>>, h, <<>>, FALSE, <<>>, FALSE, s.tokenizer)
            ELSE GenerateRequests(
                     <<Len(h) + 1>>,
                     h \o <<Request("REQ_INFERENCE", x.text, max_length,
                                    max_new_tokens, TRUE)>>,
                     s, s.tokenizer)
      [] x.t = "Request" -> GenerateRequests(<<x.ref>>, h, s, s.tokenizer)
      [] x.t = "list" ->
            IF EmptyInput(x)
            THEN Ended("list", "none", <<>>, h, <<>>, FALSE, <<>>, FALSE, s.tokenizer)
            ELSE GenerateList(x, max_length, max_new_tokens, s, h)
      [] OTHER ->
            Ended("error", "AssertionError", <<>>, h, <<>>, FALSE, <<>>, FALSE,
                  s.tokenizer)

(***************************************************************************)
(* Falcon: the conversion of the HuggingFace weights.                      *)
(***************************************************************************)
\* The largest hidden size and the largest head count of a model.
MaxHidden == 2

MaxHeads == 2

\* A tensor is the sequence of its slices along dimension 0; a slice is one
\* of two values.
Tensors(len) == [1..len -> {0, 1}]

\* No model is under conversion.
NoModel ==
    [hidden_size |-> 0, n_head |-> 0, qkv |-> <<>>, files |-> {},
     err |-> "none", converted |-> FALSE]

\* A parameter name is the sequence of its dot-separated parts. The prefix
\* rules of convert_hf_weight_name (lines 269-270): "transformer.h." becomes
\* "layers.", any other "transformer." is dropped.
ConvertPrefix(name) ==
    IF Len(name) > 2 /\ name[1] = "transformer" /\ name[2] = "h"
    THEN <<"layers">> \o SubSeq(name, 3, Len(name))
    ELSE IF Len(name) > 1 /\ name[1] = "transformer"
    THEN SubSeq(name, 2, Len(name))
    ELSE name

\* Every part old that follows the part "self_attention" becomes new
\* (str.replace of lines 271 and 285-287).
ReplaceAttention(name, old, new) ==
    [i \in 1..Len(name) |->
        IF i > 1 /\ name[i - 1] = "self_attention" /\ name[i] = old
        THEN new ELSE name[i]]

\* FlexFlowFalcon.convert_hf_weight_name (lines 268-272).
ConvertHfWeightName(name) ==
    ReplaceAttention(ConvertPrefix(name), "dense", "o_proj")

\* The split sizes with one third of the fused tensor for each projection.
SplitSizes_Thirds(hidden_size, n_head) ==
    <<hidden_size, hidden_size, hidden_size>>

\* The sizes given to torch.split (lines 290-294).
SplitSizes(hidden_size, n_head) ==
    <<hidden_size, hidden_size \div n_head, hidden_size \div n_head>>

\* torch.split(params, sizes, 0): the pieces, or "error" when the sizes do
\* not add up to the length of dimension 0.
TorchSplit(params, sizes) ==
    IF sizes[1] + sizes[2] + sizes[3] # Len(params)
    THEN [err |-> "RuntimeError", pieces |-> <<>>]
    ELSE [err |-> "none",
          pieces |-> <<SubSeq(params, 1, sizes[1]),
                       SubSeq(params, sizes[1] + 1, sizes[1] + sizes[2]),
                       SubSeq(params, sizes[1] + sizes[2] + 1, Len(params))>>]

\* model.named_parameters() of a one-layer model, in order, for the fused
\* projection qkv; the other tensors do not matter here.
NamedParameters(qkv) ==
    <<[name |-> <<"transformer", "word_embeddings", "weight">>, params |-> <<0>>],
      [name |-> <<"transformer", "h", "0", "self_attention", "query_key_value",
                  "weight">>, params |-> qkv],
      [name |-> <<"transformer", "h", "0", "self_attention", "dense", "weight">>,
       params |-> <<1>>]>>

\* The files one pass of the loop of lines 281-303 writes for parameter p,
\* given the split of its tensor.
FilesOf(name, params, split) ==
    IF \E i \in 1..Len(name) : name[i] = "query_key_value"
    THEN IF split.err # "none" THEN {}
         ELSE {<<ReplaceAttention(name, "query_key_value", "q_proj"), split.pieces[1]>>,
               <<ReplaceAttention(name, "query_key_value", "k_proj"), split.pieces[2]>>,
               <<ReplaceAttention(name, "query_key_value", "v_proj"), split.pieces[3]>>}
    ELSE {<<name, params>>}

\* FlexFlowFalcon.convert_hf_model (lines 274-306) on model m: the model with
\* the files written; the loop stops at the parameter whose split raises, and
\* lm_head.weight is written after a loop that ends.
RECURSIVE ConvertFrom(_, _, _)
ConvertFrom(m, ps, i) ==
    IF i > Len(ps)
    THEN [m EXCEPT !.files = @ \cup {<<<<"lm_head", "weight">>, <<0>>>>},
                   !.converted = TRUE]
    ELSE IF /\ \E j \in 1..Len(ps[i].name) : ps[i].name[j] = "query_key_value"
            /\ TorchSplit(ps[i].params, SplitSizes(m.hidden_size, m.n_head)).err
                   # "none"
    THEN [m EXCEPT !.err = "RuntimeError", !.converted = TRUE]
    ELSE ConvertFrom(
            [m EXCEPT !.files = @ \cup
                FilesOf(ConvertHfWeightName(ps[i].name), ps[i].params,
                        TorchSplit(ps[i].params,
                                   SplitSizes(m.hidden_size, m.n_head)))],
            ps, i + 1)

\* FlexFlowFalcon.convert_hf_model(model, dst_folder).
ConvertHfModel ==
    /\ ~hf_model.converted
    /\ hf_model.hidden_size > 0
    /\ hf_model' = ConvertFrom(hf_model, NamedParameters(hf_model.qkv), 1)
    /\ UNCHANGED <<cacheVars, sess, engine, heap, last, loras, local_dir, caller, exited>>

(***************************************************************************)
(* The constructor.                                                        *)
(***************************************************************************)
\* _SupportedModels.supported_models.get(name) (lines 50-62): the ModelType,
\* "None" for a name that is no key.
SupportedModels(name) ==
    CASE name \in {"LlamaForCausalLM", "LLaMAForCausalLM"} -> "LLAMA"
      [] name = "OPTForCausalLM" -> "OPT"
      [] name \in {"RWForCausalLM", "FalconForCausalLM"} -> "FALCON"
      [] name = "GPTBigCodeForCausalLM" -> "STARCODER"
      [] name = "MPTForCausalLM" -> "MPT"
      [] OTHER -> "None"

\* How get_ff_model_type ended.
FfArch(err, model_type) == [err |-> err, model_type |-> model_type]

\* get_ff_model_type taking the first supported name of the list.
GetFfModelType_AnySupported(architectures) ==
    IF architectures.none THEN FfArch("TypeError", "None")
    ELSE IF \E i \in 1..Len(architectures.names) :
                SupportedModels(architectures.names[i]) # "None"
    THEN FfArch("none",
                SupportedModels(architectures.names[
                    CHOOSE i \in 1..Len(architectures.names) :
                        /\ SupportedModels(architectures.names[i]) # "None"
                        /\ \A j \in 1..(i - 1) :
                              SupportedModels(architectures.names[j]) = "None"]))
    ELSE FfArch("ValueError", "None")

\* _SupportedModels.get_ff_model_type (lines 64-73); iter(None) raises
\* TypeError.
GetFfModelType(architectures) ==
    IF architectures.none THEN FfArch("TypeError", "None")
    ELSE IF Len(architectures.names) = 0 THEN FfArch("ValueError", "None")
    ELSE IF SupportedModels(architectures.names[1]) = "None"
    THEN FfArch("ValueError", "None")
    ELSE FfArch("none", SupportedModels(architectures.names[1]))

\* LLM.__init__ (lines 100-115): the statement that raises ("none": none),
\* given whether AutoConfig.from_pretrained reaches the model's repository.
InitError(reachable, architectures, dt) ==
    IF ~reachable THEN "OSError"
    ELSE IF GetFfModelType(architectures).err # "none"
    THEN GetFfModelType(architectures).err
    ELSE IF dt \notin DataTypes THEN "AssertionError"
    ELSE "none"

(***************************************************************************)
(* The adapter registry: register_peft_adapter and get_ff_peft_id.         *)
(***************************************************************************)
\* A base model other than the session's, and adapters published for it.
OtherModel == "Org/Other"

OtherPeft == "org/other-adapter"

PrefixPeft == "org/prefix-adapter"

PeftIds == {PeftName, OtherPeft, PrefixPeft}

\* A PeftConfig / LoraConfig object as far as lines 143-154 read it: dict is
\* the set of keys of to_dict().
PeftConfig(peft_type, base_model_name_or_path) ==
    [peft_type |-> peft_type, dict |-> {"peft_type", "base_model_name_or_path"},
     base_model_name_or_path |-> base_model_name_or_path]

\* PeftConfig.from_pretrained(peft_model_id) (line 132): what the adapter's
\* repository declares.
FromPretrained(peft_model_id) ==
    CASE peft_model_id = PeftName -> PeftConfig("LORA", ModelName)
      [] peft_model_id = OtherPeft -> PeftConfig("LORA", OtherModel)
      [] OTHER -> PeftConfig("PREFIX_TUNING", OtherModel)

\* The test of line 126 without the "or ''", so that None counts as an id.
EmptyId_NoneIsId(peft_model_id) == peft_model_id = ""

\* len(lora_config.peft_model_id or "") == 0 (lines 126 and 167).
EmptyId(peft_model_id) == peft_model_id \in {NoneId, ""}

\* Only an adapter that is not trainable is fetched.
Fetches_NotTrainable(lora_config) == lora_config.trainable = FALSE

\* The condition of line 131: the adapter's own PeftConfig is fetched.
Fetches(lora_config) ==
    lora_config.trainable = FALSE \/ ~lora_config.init_lora_weights

\* The LoraConfig that lines 134-142 build for a new adapter.
LocalLoraConfig(model_name) == PeftConfig("LORA", model_name)

\* Two LoraLinearConfig objects are the same dictionary key.
SameKey(a, b) == a = b

\* The store of line 158 with the adapter id as the key.
StoreItem_ById(pefts, key, value) ==
    {it \in pefts : it[1].peft_model_id # key.peft_model_id} \cup {<<key, value>>}

\* self.pefts[key] = value on the items of the dictionary.
StoreItem(pefts, key, value) ==
    {it \in pefts : ~SameKey(it[1], key)} \cup {<<key, value>>}

\* lora_config in self.pefts (line 169).
InPefts(pefts, key) == \E it \in pefts : SameKey(it[1], key)

\* self.pefts[key].
PeftsItem(pefts, key) == (CHOOSE it \in pefts : SameKey(it[1], key))[2]

\* How register_peft_adapter ended: the object and the engine after it.
Registered(s, e, err, fetched, checked, handle) ==
    [sess |-> s, engine |-> e,
     outcome |-> IF err = "none" THEN "None" ELSE "error", err |-> err,
     fetched |-> fetched, checked |-> checked, handle |-> handle]

\* The faults of the two engine calls of lines 156-162: none, ff_compile
\* raises, the engine's register_peft_adapter raises.
Faults == {"none", "compile", "register"}

\* The entry is stored before the engine is asked, without a handle when the
\* engine's registration raises.
RegisterStore_StoreFirst(lora_config, peft_config, s, e, fetched, fault) ==
    IF fault = "compile"
    THEN Registered(s, e, "EngineError_compile", fetched, TRUE, 0)
    ELSE IF "model" \notin s.defined
    THEN Registered(s, e, "AttributeError", fetched, TRUE, 0)
    ELSE IF fault = "register"
    THEN Registered(
            [s EXCEPT !.pefts =
                StoreItem(@, lora_config,
                          [peft_config |-> peft_config,
                           peft_type |-> peft_config.peft_type])],
            e, "EngineError_register", fetched, TRUE, 0)
    ELSE Registered(
            [s EXCEPT !.pefts =
                StoreItem(@, lora_config,
                          [peft_config |-> peft_config,
                           peft_type |-> peft_config.peft_type,
                           ff_peft_model_id |-> Len(e.adapters) + 1])],
            [e EXCEPT !.adapters = Append(@, lora_config)],
            "none", fetched, TRUE, Len(e.adapters) + 1)

\* Lines 156-162: ff_compile, the engine's registration, the store. The
\* value of the dictionary display is evaluated before the store: an
\* exception of ff_compile (line 156), of the read of self.model, which exists
\* only once compile has built it (line 477), or of the engine's registration
\* (line 161) leaves self.pefts as it was.
RegisterStore(lora_config, peft_config, s, e, fetched, fault) ==
    IF fault = "compile"
    THEN Registered(s, e, "EngineError_compile", fetched, TRUE, 0)
    ELSE IF "model" \notin s.defined
    THEN Registered(s, e, "AttributeError", fetched, TRUE, 0)
    ELSE IF fault = "register"
    THEN Registered(s, e, "EngineError_register", fetched, TRUE, 0)
    ELSE Registered(
            [s EXCEPT !.pefts =
                StoreItem(@, lora_config,
                          [peft_config |-> peft_config,
                           peft_type |-> peft_config.peft_type,
                           ff_peft_model_id |-> Len(e.adapters) + 1])],
            [e EXCEPT !.adapters = Append(@, lora_config)],
            "none", fetched, TRUE, Len(e.adapters) + 1)

\* Lines 143-154 without the comparison of line 151.
RegisterChecks_NoBaseTest(lora_config, peft_config, s, e, fetched, fault) ==
    IF peft_config.peft_type # "LORA"
    THEN Registered(s, e, "RuntimeError_type", fetched, FALSE, 0)
    ELSE IF "base_model_name_or_path" \notin peft_config.dict
    THEN Registered(s, e, "ValueError_nobase", fetched, FALSE, 0)
    ELSE RegisterStore(lora_config, peft_config, s, e, fetched, fault)

\* The base model is compared before the adapter's type is looked at.
RegisterChecks_BaseFirst(lora_config, peft_config, s, e, fetched, fault) ==
    IF "base_model_name_or_path" \notin peft_config.dict
    THEN Registered(s, e, "ValueError_nobase", fetched, FALSE, 0)
    ELSE IF peft_config.base_model_name_or_path # ModelName
    THEN Registered(s, e, "RuntimeError_base", fetched, TRUE, 0)
    ELSE IF peft_config.peft_type # "LORA"
    THEN Registered(s, e, "RuntimeError_type", fetched, FALSE, 0)
    ELSE RegisterStore(lora_config, peft_config, s, e, fetched, fault)

\* Lines 143-154: the checks on the PeftConfig, then lines 156-162.
RegisterChecks(lora_config, peft_config, s, e, fetched, fault) ==
    IF peft_config.peft_type # "LORA"
    THEN Registered(s, e, "RuntimeError_type", fetched, FALSE, 0)
    ELSE IF "base_model_name_or_path" \notin peft_config.dict
    THEN Registered(s, e, "ValueError_nobase", fetched, FALSE, 0)
    ELSE IF peft_config.base_model_name_or_path # ModelName
    THEN Registered(s, e, "RuntimeError_base", fetched, TRUE, 0)
    ELSE RegisterStore(lora_config, peft_config, s, e, fetched, fault)

\* LLM.register_peft_adapter (lines 122-162); reachable tells whether
\* PeftConfig.from_pretrained can reach the adapter's repository, fault which
\* of the engine's calls raises.
RegisterPeftAdapter(lora_config, s, e, reachable, fault) ==
    IF lora_config.obj = "None"
    THEN Registered(s, e, "ValueError_none", FALSE, FALSE, 0)
    ELSE IF EmptyId(lora_config.peft_model_id)
    THEN Registered(s, e, "ValueError_empty", FALSE, FALSE, 0)
    ELSE IF Fetches(lora_config)
    THEN IF reachable
         THEN RegisterChecks(lora_config,
                             FromPretrained(lora_config.peft_model_id), s, e, TRUE,
                             fault)
         ELSE Registered(s, e, "OSError", TRUE, FALSE, 0)
    ELSE RegisterChecks(lora_config, LocalLoraConfig(ModelName), s, e, FALSE, fault)

\* How get_ff_peft_id ended.
LookedUp(err, handle) ==
    [outcome |-> IF err = "none" THEN "handle" ELSE "error", err |-> err,
     handle |-> handle]

\* lora_config not in self.pefts (line 169).
Absent(pefts, lora_config) == ~InPefts(pefts, lora_config)

\* LLM.get_ff_peft_id (lines 164-178).
GetFfPeftId(lora_config, s) ==
    IF lora_config.obj = "None"
    THEN LookedUp("ValueError_none", 0)
    ELSE IF EmptyId(lora_config.peft_model_id)
    THEN LookedUp("ValueError_empty", 0)
    ELSE IF Absent(s.pefts, lora_config)
    THEN LookedUp("ValueError_unregistered", 0)
    ELSE IF "ff_peft_model_id" \notin DOMAIN PeftsItem(s.pefts, lora_config)
    THEN LookedUp("RuntimeError_uncompiled", 0)
    ELSE LookedUp("none", PeftsItem(s.pefts, lora_config).ff_peft_model_id)

\* The inference mode compile chooses (lines 454-464); "assert" when the
\* assertion of line 455 fails.
Mode(type, has_ssms) ==
    IF has_ssms THEN (IF type = "LLM" THEN "TREE_VERIFY_MODE" ELSE "assert")
    ELSE IF type = "SSM" THEN "BEAM_SEARCH_MODE" ELSE "INC_DECODING_MODE"

\* download_hf_config with the tests of __need_cache_refresh in front of the
\* fetch.
DownloadHfConfig_IfNeeded(f, hub, force) ==
    IF \/ force
       \/ ~f[ConfigDir(ModelName)].exists
       \/ f[ConfigDir(ModelName)].src # <<ModelName, hub[ModelName]>>
    THEN [fs |-> PopulatedFs(MakedirsFs(f, ConfigDir(ModelName)),
                             ConfigDir(ModelName), <<ModelName, hub[ModelName]>>),
          fetched |-> TRUE]
    ELSE [fs |-> f, fetched |-> FALSE]

\* LLM.download_hf_config (lines 180-195) when the repository is reached: the
\* folder is made if missing, the config is fetched and copied into it. The
\* file system after it, and whether the config was fetched.
DownloadHfConfig(f, hub, force) ==
    [fs |-> PopulatedFs(MakedirsFs(f, ConfigDir(ModelName)),
                        ConfigDir(ModelName), <<ModelName, hub[ModelName]>>),
     fetched |-> TRUE]

\* __need_cache_refresh as a whole on file system f: the file system after it
\* and its return value.
EnsureFresh(f, hub, force, model_name, path) ==
    LET revs == RevisionHashes(f, hub, model_name, path)
    IN  IF NeedRefresh(force, f[path].exists, revs[1], revs[2])
        THEN [fs |-> WriteMarkerFs(MakedirsFs(RmtreeFs(f, path), path), path,
                                   MarkerWritten(revs[1], revs[2])),
              ret |-> TRUE]
        ELSE [fs |-> f, ret |-> FALSE]

(***************************************************************************)
(* A model in a local directory.                                           *)
(***************************************************************************)
\* The latest modification time of a file of the directory.
MaxMtime == 2

\* The files a model directory may hold.
FileNames == {"a", "b"}

\* The directory self.model_name names: the modification time of each file
\* (0: no such file), the order os.listdir gave at the latest call, and
\* whether the directory has been written to since that call.
NoLocalDir ==
    [isdir |-> FALSE, mtime |-> [n \in FileNames |-> 0], listing |-> <<>>,
     changed |-> FALSE]

\* os.listdir(model_name) (line 219): the names of the files, in an order
\* the file system chooses.
Listings(mtime) ==
    {l \in UNION {[1..k -> FileNames] : k \in 0..Cardinality(FileNames)} :
        /\ \A i, j \in 1..Len(l) : l[i] = l[j] => i = j
        /\ \A n \in FileNames : mtime[n] > 0 <=> \E i \in 1..Len(l) : l[i] = n}

\* A file name as a digit of the printed state.
NameCode(n) == CASE n = "a" -> 1 [] n = "b" -> 2

\* Lines 220-222: files + [getmtime(f) for f in files], each element as the
\* digit str() prints for it.
ListingState(files, mtime) ==
    [i \in 1..Len(files) |-> NameCode(files[i])]
        \o [i \in 1..Len(files) |-> mtime[files[i]]]

RECURSIVE Md5(_)
\* hashlib.md5(str(state)).hexdigest() (line 223) as a number: states that
\* print differently have different digests.
Md5(state) ==
    IF state = <<>> THEN 0
    ELSE Md5(SubSeq(state, 1, Len(state) - 1)) * (MaxMtime + 1)
            + state[Len(state)]

\* LLM.__get_revision_hashes, the local branch (lines 217-223): the marker's
\* content and the digest of the listing.
LocalRevisionHashes(f, files, mtime, folder) ==
    <<f[folder].marker, <<"md5", Md5(ListingState(files, mtime))>>>>

\* __need_cache_refresh as a whole for a model in a local directory that
\* os.listdir lists as files.
LocalEnsureFresh(f, force, files, mtime, path) ==
    LET revs == LocalRevisionHashes(f, files, mtime, path)
    IN  IF NeedRefresh(force, f[path].exists, revs[1], revs[2])
        THEN [fs |-> WriteMarkerFs(MakedirsFs(RmtreeFs(f, path), path), path,
                                   MarkerWritten(revs[1], revs[2])),
              ret |-> TRUE, revs |-> revs]
        ELSE [fs |-> f, ret |-> FALSE, revs |-> revs]

\* download_hf_weights_if_needed / download_hf_tokenizer_if_needed of a
\* session whose model_name names a local directory.
LocalCall ==
    /\ local_dir.isdir
    /\ pc[Owner] = "idle"
    /\ func \in {"weights", "tokenizer"}
    /\ \E files \in Listings(local_dir.mtime) :
          \E r \in {LocalEnsureFresh(fs, refresh_cache[Owner], files,
                                      local_dir.mtime,
                                      ResourcePath(ModelName, CallKind(func),
                                                   data_type[Owner]))} :
              /\ fs' = IF r.ret
                        THEN PopulatedFs(r.fs,
                                         ResourcePath(ModelName, CallKind(func),
                                                      data_type[Owner]),
                                         r.revs[2])
                        ELSE r.fs
              /\ loc' = [loc EXCEPT ![Owner] =
                            [NoCall EXCEPT
                                !.path = ResourcePath(ModelName, CallKind(func),
                                                      data_type[Owner]),
                                !.ff_revision = r.revs[1],
                                !.latest_revision = r.revs[2],
                                !.existed = fs[ResourcePath(ModelName, CallKind(func),
                                                            data_type[Owner])].exists,
                                !.ret = IF r.ret THEN "True" ELSE "False",
                                !.src_changed = local_dir.changed]]
              /\ local_dir' = [local_dir EXCEPT !.listing = files,
                                                 !.changed = FALSE]
    /\ UNCHANGED <<remote, func, pc, refresh_cache, data_type, win, sess, engine,
                   heap, last, loras, hf_model, caller, exited>>

\* Another program writes, creates or deletes a file of the directory.
Touch ==
    /\ local_dir.isdir
    /\ \E n \in FileNames, t \in 0..MaxMtime :
          /\ t # local_dir.mtime[n]
          /\ t = 0 \/ t > local_dir.mtime[n]
          /\ local_dir' = [local_dir EXCEPT !.mtime[n] = t, !.changed = TRUE]
    /\ UNCHANGED <<cacheVars, sess, engine, heap, last, loras, hf_model, caller,
                   exited>>

CompileOutcomes ==
    {"assert", "model", "config", "tokenizer_query", "tokenizer_populate",
     "weights_query", "weights_populate", "eos", "ok"}

\* The registrations with a compile that ends at a failed weights step.
RegisteredAt_Early(out) ==
    CASE out = "ok" -> {"loader", "tokenizer"}
      [] out \in {"weights_query", "weights_populate", "eos"} -> {"loader"}
      [] OTHER -> {}

\* What a compile that ends at out has registered with the engine: the
\* weights loader at lines 518-519, the tokenizer at lines 535-537, with the
\* ValueError of line 531 between the two.
RegisteredAt(out) ==
    CASE out = "ok" -> {"loader", "tokenizer"}
      [] out = "eos" -> {"loader"}
      [] OTHER -> {}

\* LLM.compile (lines 451-549) as far as it gets: out names the statement that
\* raises ("ok": none). The session, the engine and the file system after it,
\* and whether that outcome can happen.
CompileEffect(out, m, has_ssms) ==
    LET mode == Mode(sess.type, has_ssms)
        rev == <<ModelName, remote[ModelName]>>
        force == refresh_cache[Owner]
        s0 == [sess EXCEPT !.compiles = @ + 1]
        s1 == [s0 EXCEPT !.max_seq_length = m, !.rm = TRUE,
                           !.defined = @ \cup {"max_seq_length"}]
        s2 == [s1 EXCEPT !.defined = @ \cup {"model"}]
        s3 == [s2 EXCEPT !.compiled = TRUE,
                         !.hooks = IF mode \in {"TREE_VERIFY_MODE", "INC_DECODING_MODE"}
                                   THEN @ + 1 ELSE @]
        f1 == MakedirsFs(fs, ConfigDir(ModelName))
        cfg == DownloadHfConfig(fs, remote, force)
        f2 == cfg.fs
        tpath == ResourcePath(ModelName, "TOKENIZER", data_type[Owner])
        t == EnsureFresh(f2, remote, force, ModelName, tpath)
        f3 == IF t.ret THEN PopulatedFs(t.fs, tpath, rev) ELSE t.fs
        wpath == ResourcePath(ModelName, "WEIGHTS", data_type[Owner])
        w == EnsureFresh(f3, remote, force, ModelName, wpath)
        f4 == IF w.ret THEN PopulatedFs(w.fs, wpath, rev) ELSE w.fs
        en == [engine EXCEPT !.loader = @ \/ "loader" \in RegisteredAt(out),
                             !.tokenizer = @ \/ "tokenizer" \in RegisteredAt(out)]
    IN  CASE out = "assert" ->
                [possible |-> mode = "assert", sess |-> s0, engine |-> en,
                 fs |-> fs,
                 fetched |-> FALSE]
          [] out = "model" ->
                [possible |-> mode # "assert", sess |-> s1, engine |-> en,
                 fs |-> fs,
                 fetched |-> FALSE]
          [] out = "config" ->
                [possible |-> mode # "assert", sess |-> s2, engine |-> en,
                 fs |-> f1,
                 fetched |-> FALSE]
          [] out = "tokenizer_query" ->
                [possible |-> mode # "assert", sess |-> s2, engine |-> en,
                 fs |-> QueryFails(f2, tpath),
                 fetched |-> cfg.fetched]
          [] out = "tokenizer_populate" ->
                [possible |-> mode # "assert" /\ t.ret, sess |-> s2,
                 engine |-> en, fs |-> t.fs,
                 fetched |-> cfg.fetched]
          [] out = "weights_query" ->
                [possible |-> mode # "assert", sess |-> s2, engine |-> en,
                 fs |-> QueryFails(f3, wpath),
                 fetched |-> cfg.fetched]
          [] out = "weights_populate" ->
                [possible |-> mode # "assert" /\ w.ret, sess |-> s2,
                 engine |-> en, fs |-> w.fs,
                 fetched |-> cfg.fetched]
          [] out = "eos" ->
                [possible |-> mode # "assert", sess |-> s2, engine |-> en,
                 fs |-> f4,
                 fetched |-> cfg.fetched]
          [] out = "ok" ->
                [possible |-> mode # "assert", sess |-> s3, engine |-> en,
                 fs |-> f4,
                 fetched |-> cfg.fetched]

\* The max_seq_length values compile is called with.
SeqLens == {MaxSeqLen}

\* llm.compile(max_seq_length=m, ssms=...).
Compile ==
    /\ sess.alive /\ ~exited
    /\ pc[Owner] = "idle"
    /\ sess.compiles < MaxCompiles
    /\ \E m \in SeqLens, has_ssms \in BOOLEAN, out \in CompileOutcomes :
          LET c == CompileEffect(out, m, has_ssms)
          IN  /\ c.possible
              /\ sess' = c.sess
              /\ engine' = c.engine
              /\ fs' = c.fs
              /\ win' = [win EXCEPT ![ConfigDir(ModelName)] =
                            IF out \in {"assert", "model", "config"} THEN @
                            ELSE PushWin(@, refresh_cache[Owner], c.fetched)]
              /\ last' = [NoLast EXCEPT !.op = "compile",
                                        !.outcome = IF out = "ok" THEN "None" ELSE "error",
                                        !.err = IF out = "ok" THEN "none" ELSE out,
                                        !.fetched = c.fetched]
    /\ UNCHANGED <<remote, func, pc, refresh_cache, data_type, loc, heap,
                   loras, hf_model, local_dir, caller, exited>>

\* The bounds a caller gives: unset, or a number up to one past the maximum.
Vals == Unset .. (MaxSeqLen + 1)

PromptTexts == {<<>>, <<"a">>}

\* Lists have at most this many elements.
MaxList == 2

\* The engine registers at most this many adapters.
MaxAdapters == 2

\* The LoraLinearConfig objects a script may hold, and None.
LoraConfigs ==
    {LoraLinearConfig(id, t, i, 1) :
        id \in {NoneId, ""} \cup PeftIds, t \in BOOLEAN, i \in BOOLEAN}
    \cup {NoneConfig}

\* llm.register_peft_adapter(loras[i]).
Register ==
    /\ sess.alive /\ ~exited
    /\ pc[Owner] = "idle"
    /\ \E i \in 1..2, reachable \in BOOLEAN, fault \in Faults :
          \E r \in {RegisterPeftAdapter(loras[i], sess, engine, reachable, fault)} :
              /\ Len(r.engine.adapters) <= MaxAdapters
              /\ sess' = r.sess
              /\ engine' = r.engine
              /\ last' = [NoLast EXCEPT !.op = "register", !.config = loras[i],
                                        !.outcome = r.outcome, !.err = r.err,
                                        !.fetched = r.fetched,
                                        !.checked = r.checked,
                                        !.handle = r.handle]
    /\ UNCHANGED <<cacheVars, heap, loras, hf_model, local_dir, caller, exited>>

\* llm.get_ff_peft_id(loras[i]).
Lookup ==
    /\ sess.alive /\ ~exited
    /\ \E i \in 1..2 :
          \E r \in {GetFfPeftId(loras[i], sess)} :
              last' = [NoLast EXCEPT !.op = "lookup", !.config = loras[i],
                                     !.outcome = r.outcome, !.err = r.err,
                                     !.handle = r.handle]
    /\ UNCHANGED <<cacheVars, sess, engine, heap, loras, hf_model, local_dir, caller, exited>>

ListsOf(S) == UNION {[1..n -> S] : n \in 0..MaxList}

GoodMessage == VDict({"role", "content"}, <<"a">>)

BadMessage == VDict({"role"}, <<"a">>)

MessageLists ==
    {l \in ListsOf({GoodMessage, BadMessage, VStr(<<"a">>)}) :
        Len(l) > 0 => l[1].t = "dict"}

\* The conversations a batch is made of.
ChatSamples == {<<GoodMessage>>, <<BadMessage>>, <<>>}

\* The kinds of script: what each passes to generate.
Callers == {"str", "list", "chat", "batch", "other", "requests"}

\* The argument of generate in a script of kind c.
Inputs(c) ==
    CASE c = "str" -> {VStr(t) : t \in PromptTexts}
      [] c = "list" -> {VList(l) : l \in ListsOf({VStr(t) : t \in PromptTexts})}
      [] c = "chat" -> {VList(l) : l \in MessageLists}
      [] c = "batch" -> {VList(l) : l \in ListsOf({VList(k) : k \in ChatSamples})}
      [] c = "other" -> {VList(<<VInt>>), VInt, VList(<<VInt, VStr(<<"a">>)>>),
                         VList(<<VStr(<<"a">>), BadMessage>>)}
      [] c = "requests" ->
            {VReq(i) : i \in 1..Len(heap)}
            \cup {VList(<<>>), VList(<<VReq(1), VReq(2)>>), VList(<<VReq(2), VReq(1)>>)}
            \cup {VList(<<VReq(i)>>) : i \in 1..Len(heap)}

\* The max_length and max_new_tokens a script of kind c passes.
Kwargs(c) ==
    CASE c = "str" -> Vals \X Vals
      [] c \in {"list", "requests"} -> {<<Unset, Unset>>, <<MaxSeqLen, MaxSeqLen>>}
      [] OTHER -> {<<Unset, Unset>>}

\* llm.generate(x, max_length, max_new_tokens).
GenerateCall ==
    /\ sess.alive /\ ~exited
    /\ pc[Owner] = "idle"
    /\ \E x \in Inputs(caller), kw \in Kwargs(caller) :
          \E r \in {Generate(x, kw[1], kw[2], sess, heap)} :
              /\ heap' = r.heap
              /\ sess' = [sess EXCEPT !.tokenizer = r.tokenizer]
              /\ r.dispatched => engine.calls < MaxCalls
              /\ engine' = [engine EXCEPT !.calls = IF r.dispatched THEN @ + 1 ELSE @]
              /\ last' = [op |-> "generate", input |-> x, max_length |-> kw[1],
                          max_new_tokens |-> kw[2], outcome |-> r.outcome,
                          err |-> r.err, outputs |-> r.outputs,
                          submitted |-> r.submitted, resolved |-> r.resolved,
                          at |-> r.at, batch |-> r.batch,
                          dispatched |-> r.dispatched,
                          warned |-> r.warned, config |-> NoneConfig,
                          fetched |-> FALSE, checked |-> FALSE, handle |-> 0,
                          architectures |-> NoneArchitectures]
    /\ UNCHANGED <<cacheVars, loras, hf_model, local_dir, caller, exited>>

\* The object after LLM.__init__ (lines 100-115); pefts is self.pefts, a
\* dictionary, as the set of its <<key, value>> items.
NewSess(type, chat_template) ==
    [type |-> type, rm |-> FALSE, defined |-> {}, max_seq_length |-> 0,
     compiled |-> FALSE, hooks |-> 0, alive |-> TRUE, tokenizer |-> FALSE,
     chat_template |-> chat_template, explicit_stops |-> 0, compiles |-> 0,
     pefts |-> {}, model_type |-> "LLAMA"]

\* The engine before anything was registered with it; adapters is the
\* sequence of the configs given to ffmodel.register_peft_adapter, whose
\* position is the PEFTModelID issued.
NewEngine ==
    [calls |-> 0, stops |-> 0, running |-> FALSE,
     tokenizer |-> FALSE, loader |-> FALSE, adapters |-> <<>>]

\* The architectures lists of the model repositories a script may name.
ArchSamples ==
    {NoneArchitectures, HfArchitectures(<<>>),
     HfArchitectures(<<"LlamaForCausalLM">>),
     HfArchitectures(<<"BertModel">>),
     HfArchitectures(<<"BertModel", "LlamaForCausalLM">>),
     HfArchitectures(<<"OPTForCausalLM", "BertModel">>),
     HfArchitectures(<<"MPTForCausalLM", "LlamaForCausalLM">>)}

\* llm = LLM(model_name, data_type=dt, refresh_cache=rc) while the script
\* holds no object.
Construct ==
    /\ ~sess.alive /\ ~exited
    /\ \E reachable \in BOOLEAN, a \in ArchSamples,
          dt \in DataTypes \cup {"DT_DOUBLE"}, rc \in BOOLEAN :
          \E err \in {InitError(reachable, a, dt)} :
              /\ last' = [NoLast EXCEPT !.op = "init", !.architectures = a,
                                        !.outcome = IF err = "none" THEN "None"
                                                    ELSE "error",
                                        !.err = err]
              /\ IF err = "none"
                 THEN /\ sess' = [NewSess("LLM", TRUE) EXCEPT
                                    !.model_type = GetFfModelType(a).model_type]
                      /\ data_type' = [data_type EXCEPT ![Owner] = dt]
                      /\ refresh_cache' = [refresh_cache EXCEPT ![Owner] = rc]
                 ELSE UNCHANGED <<sess, data_type, refresh_cache>>
    /\ UNCHANGED <<fs, remote, func, pc, loc, win, engine, heap, loras, hf_model, local_dir, caller,
                   exited>>

\* llm.download_hf_config() called by the script (lines 180-195); the fetch
\* of line 190 raises when the repository is not reached.
DownloadConfigCall ==
    /\ sess.alive /\ ~exited
    /\ pc[Owner] = "idle"
    /\ \E reachable \in BOOLEAN :
          \E r \in {DownloadHfConfig(fs, remote, refresh_cache[Owner])} :
              IF reachable
              THEN /\ fs' = r.fs
                   /\ win' = [win EXCEPT ![ConfigDir(ModelName)] =
                                 PushWin(@, refresh_cache[Owner], r.fetched)]
                   /\ last' = [NoLast EXCEPT !.op = "download_hf_config",
                                             !.outcome = "None",
                                             !.fetched = r.fetched]
              ELSE /\ fs' = MakedirsFs(fs, ConfigDir(ModelName))
                   /\ win' = win
                   /\ last' = [NoLast EXCEPT !.op = "download_hf_config",
                                             !.outcome = "error",
                                             !.err = "OSError"]
    /\ UNCHANGED <<remote, func, pc, refresh_cache, data_type, loc, sess,
                   engine, heap, loras, hf_model, local_dir, caller, exited>>

\* llm.start_server() (lines 698-700).
StartServer ==
    /\ sess.alive /\ ~exited
    /\ IF sess.rm /\ "model" \in sess.defined
       THEN /\ engine' = [engine EXCEPT !.running = TRUE]
            /\ last' = [NoLast EXCEPT !.op = "start_server", !.outcome = "None"]
       ELSE /\ engine' = engine
            /\ last' = [NoLast EXCEPT !.op = "start_server", !.outcome = "error",
                                      !.err = "AttributeError"]
    /\ UNCHANGED <<cacheVars, sess, heap, loras, hf_model, local_dir, caller, exited>>

\* llm.stop_server() (lines 702-704).
StopServer ==
    /\ sess.alive /\ ~exited
    /\ sess.explicit_stops < MaxStops
    /\ sess' = [sess EXCEPT !.explicit_stops = @ + 1]
    /\ IF sess.rm
       THEN /\ engine' = [engine EXCEPT !.running = FALSE, !.stops = @ + 1]
            /\ last' = [NoLast EXCEPT !.op = "stop_server", !.outcome = "None"]
       ELSE /\ engine' = engine
            /\ last' = [NoLast EXCEPT !.op = "stop_server", !.outcome = "error",
                                      !.err = "AttributeError"]
    /\ UNCHANGED <<cacheVars, heap, loras, hf_model, local_dir, caller, exited>>

\* LLM.__del__ (lines 117-120): the stop_server calls it makes.
DelStops(s) == IF s.type = "LLM" /\ s.rm THEN 1 ELSE 0

\* The object is destroyed while the process runs (del llm).
Del ==
    /\ sess.alive /\ ~exited
    /\ sess' = [sess EXCEPT !.alive = FALSE]
    /\ engine' = [engine EXCEPT !.stops = @ + DelStops(sess),
                                !.running = @ /\ DelStops(sess) = 0]
    /\ last' = [NoLast EXCEPT !.op = "del"]
    /\ UNCHANGED <<cacheVars, heap, loras, hf_model, local_dir, caller, exited>>

\* The process exits: the atexit hooks run (line 549 registered
\* rm.stop_server once per compile), then the interpreter may or may not
\* finalise an object that is still alive.
Exit ==
    /\ ~exited
    /\ exited' = TRUE
    /\ \E finalise \in BOOLEAN :
          LET d == IF finalise /\ sess.alive THEN DelStops(sess) ELSE 0
          IN  /\ finalise => sess.alive
              /\ sess' = [sess EXCEPT !.alive = @ /\ ~finalise]
              /\ engine' = [engine EXCEPT !.stops = @ + sess.hooks + d,
                                          !.running = @ /\ sess.hooks + d = 0]
    /\ last' = [NoLast EXCEPT !.op = "exit"]
    /\ UNCHANGED <<cacheVars, heap, loras, hf_model, local_dir, caller>>

\* The Request objects a script may hold.
Requests ==
    {Request("REQ_FINETUNING", <<"a">>, ml, mnt, TRUE) : ml \in Vals, mnt \in Vals}
    \cup {Request("REQ_INFERENCE", <<"a">>, v, v, TRUE) : v \in Vals}

\* The second object of a script that holds two.
SecondRequests ==
    {Request("REQ_INFERENCE", <<"a">>, Unset, Unset, TRUE),
     Request("REQ_INFERENCE", <<"a">>, MaxSeqLen, Unset, TRUE),
     Request("REQ_FINETUNING", <<"a">>, Unset, Unset, TRUE)}

DefaultRequest == Request("REQ_INFERENCE", <<"a">>, Unset, Unset, TRUE)

CacheInit ==
    /\ fs = [q \in Paths |-> AbsentDir]
    /\ remote = [r \in Repos |-> 1]
    /\ func \in Funcs
    /\ pc = [p \in Procs |-> IF p = 1 THEN "idle" ELSE "off"]
    /\ refresh_cache \in [Procs -> BOOLEAN]
    /\ \A p \in Procs : p # 1 => ~refresh_cache[p]
    /\ \E dt \in DataTypes : data_type = [p \in Procs |-> dt]
    /\ loc = [p \in Procs |-> NoCall]
    /\ win = [q \in Paths |-> <<>>]

CacheStep(p) ==
    \/ Call(p)
    \/ Check(p)
    \/ RevisionQueryFails(p)
    \/ Rmtree(p)
    \/ Makedirs(p)
    \/ WriteMarker(p)
    \/ Download(p)
    \/ WriteSome(p)
    \/ WriteRest(p)
    \/ PopulationFails(p)
    \/ Crash(p)
    \/ NewSession(p)

\* No session is at work while the cache is studied.
SessIdle ==
    /\ sess = NewSess("LLM", TRUE)
    /\ engine = NewEngine
    /\ heap = <<DefaultRequest, DefaultRequest>>
    /\ last = NoLast
    /\ loras = <<NoneConfig, NoneConfig>>
    /\ hf_model = NoModel
    /\ local_dir = NoLocalDir
    /\ caller = "str"
    /\ exited = FALSE

Init == CacheInit /\ SessIdle

Next ==
    \/ \E p \in Procs : CacheStep(p)
    \/ \E r \in Repos : RemoteUpdate(r)

\* The cache under repeated calls of one download function.
Spec == Init /\ [][Next]_vars

\* A fresh machine: nothing cached, one process, its object just constructed.
FreshCache ==
    /\ fs = [q \in Paths |-> AbsentDir]
    /\ remote = [r \in Repos |-> 1]
    /\ func = "weights"
    /\ pc = [p \in Procs |-> IF p = Owner THEN "idle" ELSE "off"]
    /\ refresh_cache \in [Procs -> BOOLEAN]
    /\ \A p \in Procs : p # Owner => ~refresh_cache[p]
    /\ data_type = [p \in Procs |-> "DT_HALF"]
    /\ loc = [p \in Procs |-> NoCall]
    /\ win = [q \in Paths |-> <<>>]

GenInit ==
    /\ FreshCache
    /\ ~refresh_cache[Owner]
    /\ \E ct \in BOOLEAN : sess = NewSess("LLM", ct)
    /\ engine = NewEngine
    /\ caller \in Callers
    /\ heap \in [1..2 -> Requests \cup SecondRequests]
    /\ \/ heap[1] \in Requests /\ heap[2] = DefaultRequest
       \/ heap[1] = DefaultRequest /\ heap[2] \in SecondRequests
    /\ caller \notin {"chat", "batch"} => sess.chat_template
    /\ caller # "requests" => heap = <<DefaultRequest, DefaultRequest>>
    /\ last = NoLast
    /\ loras = <<NoneConfig, NoneConfig>>
    /\ hf_model = NoModel
    /\ local_dir = NoLocalDir
    /\ exited = FALSE

GenNext == Compile \/ GenerateCall

\* One session: compile and generate.
SpecGen == GenInit /\ [][GenNext]_vars

LifeInit ==
    /\ FreshCache
    /\ \E t \in {"LLM", "SSM"} : sess = NewSess(t, TRUE)
    /\ engine = NewEngine
    /\ caller = "str"
    /\ heap = <<DefaultRequest, DefaultRequest>>
    /\ last = NoLast
    /\ loras = <<NoneConfig, NoneConfig>>
    /\ hf_model = NoModel
    /\ local_dir = NoLocalDir
    /\ exited = FALSE

\* The script holds a config and either a second object for the same adapter
\* with another rank or a config of the session's own inference adapter.
PeftInit ==
    /\ FreshCache
    /\ ~refresh_cache[Owner]
    /\ sess = NewSess("LLM", TRUE)
    /\ engine = NewEngine
    /\ caller = "str"
    /\ heap = <<DefaultRequest, DefaultRequest>>
    /\ last = NoLast
    /\ \E c \in LoraConfigs :
          \/ loras = <<c, LoraLinearConfig(PeftName, FALSE, FALSE, 1)>>
          \/ c.obj # "None" /\ loras = <<c, [c EXCEPT !.rank = 2]>>
    /\ hf_model = NoModel
    /\ local_dir = NoLocalDir
    /\ exited = FALSE

PeftNext == Compile \/ Register \/ Lookup

\* One session: compile, register adapters and look them up.
SpecPeft == PeftInit /\ [][PeftNext]_vars

\* The cache an earlier run of the program left behind: everything was
\* populated at the first revision with half precision.
WarmFs ==
    LET hub == [r \in Repos |-> 1]
        cold == [q \in Paths |-> AbsentDir]
        tpath == ResourcePath(ModelName, "TOKENIZER", "DT_HALF")
        wpath == ResourcePath(ModelName, "WEIGHTS", "DT_HALF")
        f2 == DownloadHfConfig(cold, hub, FALSE).fs
        f3 == PopulatedFs(EnsureFresh(f2, hub, FALSE, ModelName, tpath).fs,
                          tpath, <<ModelName, 1>>)
    IN  PopulatedFs(EnsureFresh(f3, hub, FALSE, ModelName, wpath).fs,
                    wpath, <<ModelName, 1>>)

\* The cache that earlier runs at both precisions left behind.
WarmBothFs ==
    LET hub == [r \in Repos |-> 1]
        fpath == ResourcePath(ModelName, "WEIGHTS", "DT_FLOAT")
    IN  PopulatedFs(EnsureFresh(WarmFs, hub, FALSE, ModelName, fpath).fs,
                    fpath, <<ModelName, 1>>)

WarmInit ==
    /\ fs = WarmBothFs
    /\ remote = [r \in Repos |-> 1]
    /\ func \in Funcs
    /\ pc = [p \in Procs |-> IF p = Owner THEN "idle" ELSE "off"]
    /\ refresh_cache \in [Procs -> BOOLEAN]
    /\ \A p \in Procs : p # Owner => ~refresh_cache[p]
    /\ \E dt \in DataTypes : data_type = [p \in Procs |-> dt]
    /\ loc = [p \in Procs |-> NoCall]
    /\ win = [q \in Paths |-> <<>>]
    /\ SessIdle

\* The calls of one download function on a cache that holds the model's
\* config, tokenizer and weights of both precisions.
SpecWarm == WarmInit /\ [][Next]_vars

\* A process that has not constructed its LLM yet, on a cold or a warm cache;
\* the repository may have moved on since the cache was written.
NewInit ==
    /\ fs \in {[q \in Paths |-> AbsentDir], WarmFs}
    /\ \E rev \in 1..MaxRev : remote = [r \in Repos |-> IF r = ModelName THEN rev ELSE 1]
    /\ func = "weights"
    /\ pc = [p \in Procs |-> IF p = Owner THEN "idle" ELSE "off"]
    /\ refresh_cache = [p \in Procs |-> FALSE]
    /\ data_type = [p \in Procs |-> "DT_HALF"]
    /\ loc = [p \in Procs |-> NoCall]
    /\ win = [q \in Paths |-> <<>>]
    /\ sess = [NewSess("LLM", TRUE) EXCEPT !.alive = FALSE]
    /\ engine = NewEngine
    /\ caller = "str"
    /\ heap = <<DefaultRequest, DefaultRequest>>
    /\ last = NoLast
    /\ loras = <<NoneConfig, NoneConfig>>
    /\ hf_model = NoModel
    /\ local_dir = NoLocalDir
    /\ exited = FALSE

NewNext == Construct \/ Compile \/ DownloadConfigCall

\* One process from the construction of its LLM on.
SpecNew == NewInit /\ [][NewNext]_vars

\* A Falcon model about to be converted: its fused projection has either
\* three times the hidden size or the hidden size and two heads' worth.
FalconInit ==
    /\ FreshCache
    /\ ~refresh_cache[Owner]
    /\ sess = NewSess("LLM", TRUE)
    /\ engine = NewEngine
    /\ caller = "str"
    /\ heap = <<DefaultRequest, DefaultRequest>>
    /\ last = NoLast
    /\ loras = <<NoneConfig, NoneConfig>>
    /\ local_dir = NoLocalDir
    /\ exited = FALSE
    /\ \E h \in 1..MaxHidden, n \in 1..MaxHeads :
          \E len \in {3 * h, h + 2 * (h \div n)} :
              \E t \in Tensors(len) :
                  hf_model = [NoModel EXCEPT !.hidden_size = h, !.n_head = n,
                                             !.qkv = t]

FalconNext == ConvertHfModel

\* The conversion of one Falcon model.
SpecFalcon == FalconInit /\ [][FalconNext]_vars

\* Two processes of the program on one cold cache, each with its own LLM
\* object for the same model and precision.
TwoInit ==
    /\ fs = [q \in Paths |-> AbsentDir]
    /\ remote = [r \in Repos |-> 1]
    /\ func \in {"weights", "tokenizer"}
    /\ pc = [p \in Procs |-> "idle"]
    /\ refresh_cache \in [Procs -> BOOLEAN]
    /\ \E dt \in DataTypes : data_type = [p \in Procs |-> dt]
    /\ loc = [p \in Procs |-> NoCall]
    /\ win = [q \in Paths |-> <<>>]
    /\ SessIdle

TwoStep(p) ==
    \/ Call(p)
    \/ Check(p)
    \/ Rmtree(p)
    \/ Makedirs(p)
    \/ WriteMarker(p)
    \/ WriteMarkerFails(p)
    \/ Download(p)
    \/ WriteSome(p)
    \/ WriteRest(p)

TwoNext == \E p \in Procs : TwoStep(p)

\* The cache under the calls of two processes, interleaved.
SpecTwo == TwoInit /\ [][TwoNext]_vars

\* One process and a model in a local directory, on a cold cache.
LocalInit ==
    /\ fs = [q \in Paths |-> AbsentDir]
    /\ remote = [r \in Repos |-> 1]
    /\ func \in {"weights", "tokenizer"}
    /\ pc = [p \in Procs |-> IF p = Owner THEN "idle" ELSE "off"]
    /\ refresh_cache \in [Procs -> BOOLEAN]
    /\ \A p \in Procs : p # Owner => ~refresh_cache[p]
    /\ \E dt \in DataTypes : data_type = [p \in Procs |-> dt]
    /\ loc = [p \in Procs |-> NoCall]
    /\ win = [q \in Paths |-> <<>>]
    /\ sess = NewSess("LLM", TRUE)
    /\ engine = NewEngine
    /\ heap = <<DefaultRequest, DefaultRequest>>
    /\ last = NoLast
    /\ loras = <<NoneConfig, NoneConfig>>
    /\ hf_model = NoModel
    /\ \E m \in [FileNames -> 0..1] :
          local_dir = [NoLocalDir EXCEPT !.isdir = TRUE, !.mtime = m,
                                         !.changed = TRUE]
    /\ caller = "str"
    /\ exited = FALSE

LocalNext == LocalCall \/ Touch

\* The cache of a model in a local directory.
SpecLocal == LocalInit /\ [][LocalNext]_vars

LifeNext == Compile \/ StartServer \/ StopServer \/ Del \/ Exit

\* One session: compile, the server, destruction and process exit.
SpecLife == LifeInit /\ [][LifeNext]_vars

(***************************************************************************)
(* The cache: claims.                                                      *)
(***************************************************************************)
\* The folder-rewriting operations of one refresh, in order.
RefreshOps == {<<"rmtree", "makedirs", "write">>, <<"makedirs", "write">>}

\* C1: a call of __need_cache_refresh that returns has rewritten the folder
\* once and returned True if and only if refresh_cache was set, or the folder
\* did not exist, or the marker's revision (None when there is no marker)
\* differed from the latest revision; otherwise it returned False and did
\* nothing to the folder.
C1_RefreshIffForcedMissingOrStale ==
    \A p \in Procs :
        loc[p].ret \in {"True", "False"} =>
            LET cond == \/ refresh_cache[p]
                        \/ ~loc[p].existed
                        \/ loc[p].ff_revision # loc[p].latest_revision
            IN  /\ (loc[p].ret = "True") <=> cond
                /\ loc[p].ret = "True" => loc[p].ops \in RefreshOps
                /\ loc[p].ret = "False" => loc[p].ops = <<>>
                /\ loc[p].ff_revision = NoRev => loc[p].ret = "True"

\* C1's case: a forced call on an existing folder whose marker is the latest
\* revision has refreshed it.
C1_Witness ==
    \E p \in Procs :
        /\ loc[p].ret = "True"
        /\ refresh_cache[p]
        /\ loc[p].existed
        /\ loc[p].ff_revision = loc[p].latest_revision
        /\ loc[p].ops = <<"rmtree", "makedirs", "write">>

\* C2 as stated: two consecutive unforced calls on one folder, with no commit
\* to a source in between, refresh exactly once, in the first call.
C2_TwoCallsExactlyOneRefresh ==
    \A q \in Paths : Len(win[q]) = 2 => win[q] = <<TRUE, FALSE>>

\* C2 amended: of two consecutive unforced calls on one folder with no commit
\* to a source in between, the later one never refreshes (so the two refresh
\* at most once).
C2_SecondCallNeverRefreshes ==
    \A q \in Paths : Len(win[q]) = 2 => ~win[q][2]

\* C2's case: the first call refreshed and the next one did not.
C2_Witness ==
    \E q \in Paths : win[q] = <<TRUE, FALSE>>

\* C3: when no call is at work, a folder with a marker of revision r holds a
\* complete population downloaded at r.
C3_MarkerImpliesFullyWritten ==
    (\A p \in Procs : pc[p] \in {"idle", "off"}) =>
        \A q \in Paths :
            fs[q].marker # NoRev => fs[q].files = "full" /\ fs[q].src = fs[q].marker

(***************************************************************************)
(* Properties of generate.                                                 *)
(***************************************************************************)
\* The last operation was a call of generate.
Generated == last.op = "generate"

\* compile has set self.max_seq_length.
HasMsl == "max_seq_length" \in sess.defined

\* The i-th request of the last call was looked at by _generate's loop.
Reached(i) == last.at = 0 \/ i <= last.at

BothUnset(r) == r.max_length = Unset /\ r.max_new_tokens = Unset

BothSet(r) == r.max_length # Unset /\ r.max_new_tokens # Unset

\* C4: a call of generate on a session whose compile has not run to
\* completion fails with an error and dispatches nothing, whatever the input.
C4_GenerateBeforeCompileIsFatal ==
    (Generated /\ ~sess.compiled) =>
        (last.outcome = "error" /\ ~last.dispatched)

\* C5: once the process has exited, the engine's stop has been invoked exactly
\* once for a compiled session.
C5_StopExactlyOnce ==
    (exited /\ sess.type = "LLM" /\ sess.compiled) => engine.stops = 1

\* C6: an Inference request that _generate's loop looks at with max_length and
\* max_new_tokens both unset leaves it with max_length = max_seq_length - 1 and
\* max_new_tokens unset, is not rejected, and is dispatched with these values
\* when the call dispatches.
C6_BothUnsetDefault ==
    (Generated /\ HasMsl) =>
        \A i \in 1..Len(last.submitted) :
            (/\ last.submitted[i].req_type = "REQ_INFERENCE"
             /\ BothUnset(last.submitted[i])
             /\ Reached(i)) =>
                /\ last.resolved[i].max_length = sess.max_seq_length - 1
                /\ last.resolved[i].max_new_tokens = Unset
                /\ last.at # i
                /\ last.dispatched => last.batch[i] = last.resolved[i]

C6_Witness ==
    /\ Generated /\ last.dispatched /\ last.input.t = "list"
    /\ Len(last.batch) = 2
    /\ last.input.elems[1].t = "list"
    /\ BothUnset(last.submitted[2])
    /\ last.batch[2].max_length = MaxSeqLen - 1

\* C7 as stated: every request with both bounds set, of either kind, leaves
\* _generate's loop with max_length unset and max_new_tokens unchanged.
C7_BothSetResolved ==
    Generated =>
        \A i \in 1..Len(last.submitted) :
            (BothSet(last.submitted[i]) /\ Reached(i)) =>
                /\ last.resolved[i].max_length = Unset
                /\ last.resolved[i].max_new_tokens = last.submitted[i].max_new_tokens

\* C7: every Inference request with both bounds set leaves _generate's loop
\* with max_length unset and max_new_tokens unchanged, and a warning is given;
\* the call still dispatches when that request is the only one and its
\* max_new_tokens is below the maximum sequence length.
C7_InferenceBothSetResolved ==
    Generated =>
        \A i \in 1..Len(last.submitted) :
            (/\ last.submitted[i].req_type = "REQ_INFERENCE"
             /\ BothSet(last.submitted[i])
             /\ Reached(i)) =>
                /\ last.resolved[i].max_length = Unset
                /\ last.resolved[i].max_new_tokens = last.submitted[i].max_new_tokens
                /\ last.warned
                /\ (/\ sess.compiled
                    /\ Len(last.submitted) = 1
                    /\ last.submitted[i].max_new_tokens < sess.max_seq_length)
                        => last.dispatched /\ last.batch[i] = last.resolved[i]

C7_Witness ==
    /\ Generated /\ last.dispatched /\ last.warned
    /\ Len(last.submitted) = 1
    /\ last.submitted[1].max_length = MaxSeqLen
    /\ last.submitted[1].max_new_tokens = MaxSeqLen - 1
    /\ last.batch[1].max_length = Unset

\* C8 as stated: a call with a request whose max_length or max_new_tokens, as
\* given, is at least the maximum sequence length fails.
C8_GivenBoundsRejected ==
    (Generated /\ HasMsl) =>
        \A i \in 1..Len(last.submitted) :
            (\/ last.submitted[i].max_length >= sess.max_seq_length
             \/ last.submitted[i].max_new_tokens >= sess.max_seq_length) =>
                last.outcome = "error" /\ ~last.dispatched

\* The request is rejected by the kind rule before any bound is compared.
KindRejected(r) == r.req_type = "REQ_FINETUNING" /\ r.max_new_tokens # Unset

\* C8: the bounds are compared after the both-set rule has dropped max_length:
\* a request that leaves the resolution with max_length or max_new_tokens at
\* least the maximum sequence length fails the call with the bounds error, and
\* every request dispatched has both below the maximum sequence length.
C8_ResolvedBoundsRejected ==
    (Generated /\ HasMsl) =>
        /\ \A i \in 1..Len(last.submitted) :
              (/\ Reached(i)
               /\ ~KindRejected(last.submitted[i])
               /\ \/ last.resolved[i].max_length >= sess.max_seq_length
                  \/ last.resolved[i].max_new_tokens >= sess.max_seq_length) =>
                    /\ last.outcome = "error"
                    /\ last.err = "ValueError_exceeds"
                    /\ last.at = i
                    /\ ~last.dispatched
        /\ last.dispatched =>
              \A i \in 1..Len(last.batch) :
                  /\ last.batch[i].max_length < sess.max_seq_length
                  /\ last.batch[i].max_new_tokens < sess.max_seq_length

C8_Witness ==
    /\ Generated /\ HasMsl /\ last.err = "ValueError_exceeds"
    /\ last.input.t = "Request"
    /\ last.submitted[1].req_type = "REQ_INFERENCE"
    /\ last.submitted[1].max_new_tokens = MaxSeqLen
    /\ last.submitted[1].max_length = MaxSeqLen

\* C9: a Finetune request with max_new_tokens set is rejected; with
\* max_new_tokens unset it gets max_length = max_seq_length - 1 when max_length
\* is unset, and it is rejected when its max_length is at least the maximum
\* sequence length.
C9_FinetuneRules ==
    Generated =>
        \A i \in 1..Len(last.submitted) :
            (last.submitted[i].req_type = "REQ_FINETUNING" /\ Reached(i)) =>
                /\ last.submitted[i].max_new_tokens # Unset =>
                      /\ last.outcome = "error" /\ last.err = "ValueError_finetune"
                      /\ last.at = i /\ ~last.dispatched
                /\ (HasMsl /\ BothUnset(last.submitted[i])) =>
                      /\ last.resolved[i].max_length = sess.max_seq_length - 1
                      /\ last.at # i
                /\ (/\ HasMsl
                    /\ last.submitted[i].max_new_tokens = Unset
                    /\ last.submitted[i].max_length >= sess.max_seq_length) =>
                      /\ last.outcome = "error" /\ last.err = "ValueError_exceeds"
                      /\ last.at = i /\ ~last.dispatched

C9_Witness ==
    /\ Generated /\ last.dispatched
    /\ Len(last.submitted) = 2
    /\ last.submitted[2].req_type = "REQ_FINETUNING"
    /\ BothUnset(last.submitted[2])
    /\ heap[last.input.elems[2].ref].max_length = MaxSeqLen - 1

\* C10: generate on the empty list or the empty string returns an empty list
\* and leaves the engine as it was: no dispatch, the call count unchanged.
C10_EmptyInputNoDispatch ==
    [][(last'.op = "generate" /\ last'.input \in {VStr(<<>>), VList(<<>>)}) =>
          /\ last'.outcome = "list"
          /\ last'.outputs = <<>>
          /\ ~last'.dispatched
          /\ engine' = engine]_vars

C10_Witness ==
    /\ Generated /\ last.input = VList(<<>>)
    /\ last.outcome = "list" /\ last.outputs = <<>>
    /\ sess.compiled /\ engine.calls > 0

\* The input of the last call is a str or a list with at least one element.
NonEmptyInput ==
    \/ last.input.t = "str" /\ Len(last.input.text) > 0
    \/ last.input.t = "list" /\ Len(last.input.elems) > 0
    \/ last.input.t \notin {"str", "list"}

\* C11: a call of generate on a non-empty input either raises or returns a
\* list with one result for each request it submitted, at least one.
C11_ResultsOrError ==
    (Generated /\ NonEmptyInput) =>
        \/ last.outcome = "error"
        \/ /\ last.outcome = "list"
           /\ Len(last.submitted) > 0
           /\ Len(last.outputs) = Len(last.submitted)

\* The input of the last call is a list of str only.
StrListInput ==
    /\ last.input.t = "list"
    /\ \A i \in 1..Len(last.input.elems) : last.input.elems[i].t = "str"

ChatLists ==
    IF last.input.t = "list" /\ Len(last.input.elems) > 0
    THEN IF last.input.elems[1].t = "dict" THEN <<last.input>>
         ELSE IF last.input.elems[1].t = "list" THEN last.input.elems
         ELSE <<>>
    ELSE <<>>

\* C13: a chat call that is not rejected hands the engine one request per
\* message list, in order, with the rendered template as prompt, and returns
\* each engine output without its first len(prompt) characters.
C13_ChatPromptStripped ==
    (Generated /\ Len(ChatLists) > 0 /\ last.outcome = "list") =>
        /\ last.dispatched
        /\ Len(last.batch) = Len(ChatLists)
        /\ Len(last.outputs) = Len(ChatLists)
        /\ \A i \in 1..Len(ChatLists) :
              /\ last.batch[i].prompt = Render(ChatLists[i].elems)
              /\ Len(last.outputs[i]) =
                    Len(EngineOutput(last.batch[i])) - Len(last.batch[i].prompt)
              /\ \A k \in 1..Len(last.outputs[i]) :
                    last.outputs[i][k] =
                        EngineOutput(last.batch[i])[Len(last.batch[i].prompt) + k]

C13_Witness ==
    /\ Generated /\ last.dispatched
    /\ last.input = VList(<<VList(<<GoodMessage>>), VList(<<>>)>>)
    /\ last.batch[1].prompt = <<"<", "a", ">">>
    /\ last.batch[2].prompt = <<">">>
    /\ last.outputs = <<<<"!">>, <<"!">>>>

\* Some entry of the message lists is no dict with the keys role and content.
Malformed ==
    \E i \in 1..Len(ChatLists) :
        \/ ChatLists[i].t # "list"
        \/ \E k \in 1..Len(ChatLists[i].elems) :
              ~(/\ ChatLists[i].elems[k].t = "dict"
                /\ {"role", "content"} \subseteq ChatLists[i].elems[k].keys)

\* C14: a chat call with a malformed entry at any position raises and hands
\* the engine nothing.
C14_MalformedChatFails ==
    (Generated /\ Malformed) =>
        /\ last.outcome = "error"
        /\ ~last.dispatched
        /\ last.submitted = <<>>

C14_Witness ==
    /\ Generated /\ sess.compiled
    /\ last.input = VList(<<VList(<<GoodMessage>>), VList(<<BadMessage>>)>>)
    /\ last.err = "ValueError_message"
    /\ ~last.dispatched

(***************************************************************************)
(* The adapter registry: claims.                                           *)
(***************************************************************************)
\* The last operation was a call of register_peft_adapter.
RegisterCalled == last.op = "register"

\* C15: register_peft_adapter with a config that is None or whose
\* peft_model_id is None or empty always raises, without having fetched the
\* adapter's PeftConfig and without having compared base models, and leaves
\* self.pefts and the engine's adapters as they were.
C15_EmptyIdFailsFirst ==
    [][(/\ last'.op = "register"
        /\ \/ last'.config.obj = "None"
           \/ last'.config.peft_model_id \in {NoneId, ""})
       => /\ last'.outcome = "error"
          /\ last'.err \in {"ValueError_none", "ValueError_empty"}
          /\ ~last'.fetched
          /\ ~last'.checked
          /\ sess'.pefts = sess.pefts
          /\ engine'.adapters = engine.adapters]_vars

\* An empty id is rejected while the registry holds another adapter.
C15_Witness ==
    /\ RegisterCalled
    /\ last.config.obj = "LoraLinearConfig"
    /\ last.config.peft_model_id = ""
    /\ last.err = "ValueError_empty"
    /\ sess.pefts # {}
    /\ Len(engine.adapters) = 1

\* The register step taken has a config for an adapter whose repository
\* declares a base model other than the session's.
MismatchRegistered ==
    /\ last'.op = "register"
    /\ last'.config.obj = "LoraLinearConfig"
    /\ last'.config.peft_model_id \in PeftIds
    /\ FromPretrained(last'.config.peft_model_id).base_model_name_or_path
            # ModelName

\* C16 as stated: register_peft_adapter with a config of an adapter whose
\* base model is not the session's model fails, whatever trainable and
\* init_lora_weights are, and neither stores an entry nor calls the engine.
C16_MismatchAlwaysFails ==
    [][MismatchRegistered
       => /\ last'.outcome = "error"
          /\ sess'.pefts = sess.pefts
          /\ engine'.adapters = engine.adapters]_vars

\* C16, amended: when trainable is False or init_lora_weights is False the
\* adapter's PeftConfig is fetched and a base model other than the session's
\* makes the call fail, with the mismatch error whenever the comparison of
\* line 151 is reached, and nothing is stored nor sent to the engine. When
\* both flags are set nothing is fetched and the call never fails with the
\* mismatch error.
C16_FetchedMismatchFails ==
    [][MismatchRegistered
       => IF last'.config.trainable /\ last'.config.init_lora_weights
          THEN ~last'.fetched /\ last'.err # "RuntimeError_base"
          ELSE /\ last'.fetched
               /\ last'.outcome = "error"
               /\ last'.err \in {"OSError", "RuntimeError_type",
                                 "RuntimeError_base"}
               /\ last'.checked <=> last'.err = "RuntimeError_base"
               /\ sess'.pefts = sess.pefts
               /\ engine'.adapters = engine.adapters]_vars

\* A fetched adapter of another base model is rejected by a compiled session
\* that holds a registered adapter.
C16_Witness ==
    /\ RegisterCalled
    /\ last.config.peft_model_id = OtherPeft
    /\ ~last.config.trainable
    /\ last.err = "RuntimeError_base"
    /\ "model" \in sess.defined
    /\ Len(engine.adapters) = 1
    /\ \A it \in sess.pefts : it[1].peft_model_id = PeftName

\* The handles the engine issued for config c, in the order of issue.
IssuedFor(c) == {h \in 1..Len(engine.adapters) : engine.adapters[h] = c}

\* C17: get_ff_peft_id of a config that no register_peft_adapter call stored
\* raises the not-registered ValueError (for None or an empty id, the
\* ValueError of lines 165-168); of a config that was stored it returns the
\* handle the engine issued in the latest registration of that very config,
\* whatever other configs of the same peft_model_id were registered. No
\* lookup changes self.pefts or the engine's adapters.
C17_LookupByFullConfig ==
    [][last'.op = "lookup"
       => /\ sess'.pefts = sess.pefts
          /\ engine'.adapters = engine.adapters
          /\ IF IssuedFor(last'.config) = {}
             THEN /\ last'.outcome = "error"
                  /\ last'.err =
                        IF last'.config.obj = "None" THEN "ValueError_none"
                        ELSE IF last'.config.peft_model_id \in {NoneId, ""}
                        THEN "ValueError_empty"
                        ELSE "ValueError_unregistered"
             ELSE /\ last'.outcome = "handle"
                  /\ last'.handle \in IssuedFor(last'.config)
                  /\ \A h \in IssuedFor(last'.config) : h <= last'.handle]_vars

\* The first config is looked up after a second one of the same adapter id
\* and another rank was registered.
C17_Witness ==
    /\ last.op = "lookup"
    /\ last.config = loras[1]
    /\ last.handle = 1
    /\ engine.adapters = <<loras[1], loras[2]>>
    /\ loras[1].peft_model_id = loras[2].peft_model_id
    /\ loras[1].rank # loras[2].rank

(***************************************************************************)
(* The constructor and the config: claims.                                 *)
(***************************************************************************)
\* The model declares no architecture, or its first one is not supported.
Unsupported(a) ==
    \/ a.none
    \/ Len(a.names) = 0
    \/ SupportedModels(a.names[1]) = "None"

\* C18: LLM(...) for a model that declares no architecture or whose first
\* declared architecture is no key of supported_models raises in __init__: no
\* object comes to exist, no cache folder is created or changed and nothing
\* is registered with the engine; while no object exists no step changes the
\* cache. A construction that succeeds has the model type of the first
\* declared architecture, whatever the later ones are.
C18_UnsupportedFailsAtInit ==
    [][/\ (last'.op = "init" /\ Unsupported(last'.architectures))
            => /\ last'.outcome = "error"
               /\ last'.err \in {"OSError", "TypeError", "ValueError"}
               /\ ~sess'.alive
               /\ fs' = fs
               /\ engine' = engine
       /\ (last'.op = "init" /\ last'.outcome = "None")
            => /\ sess'.alive
               /\ sess'.model_type = SupportedModels(last'.architectures.names[1])
       /\ ~sess'.alive => fs' = fs]_vars

\* A model whose second architecture is supported, but not its first, is
\* refused while a populated cache lies on the disk.
C18_Witness ==
    /\ last.op = "init"
    /\ last.architectures = HfArchitectures(<<"BertModel", "LlamaForCausalLM">>)
    /\ last.err = "ValueError"
    /\ ~sess.alive
    /\ fs = WarmFs

\* C19 as stated: of two consecutive unforced config downloads with no commit
\* to the repository in between, the later one does not fetch the config.
C19_ConfigSecondCallNoRefresh ==
    Len(win[ConfigDir(ModelName)]) = 2 => ~win[ConfigDir(ModelName)][2]

\* C19, amended: download_hf_config fetches the config on every call that
\* reaches the repository, forced or not, cached or not, and so does every
\* compile that gets past it.
C19_ConfigAlwaysFetched ==
    /\ \A i \in 1..Len(win[ConfigDir(ModelName)]) : win[ConfigDir(ModelName)][i]
    /\ (/\ last.op \in {"compile", "download_hf_config"}
        /\ last.err \notin {"assert", "model", "config", "OSError"})
            => /\ last.fetched
               /\ fs[ConfigDir(ModelName)].files = "full"
               /\ fs[ConfigDir(ModelName)].src = <<ModelName, remote[ModelName]>>

\* Two unforced compiles or downloads in a row on a cache that already held
\* the config of the latest revision; both fetched it.
C19_Witness ==
    /\ win[ConfigDir(ModelName)] = <<TRUE, TRUE>>
    /\ ~refresh_cache[Owner]
    /\ remote[ModelName] = 1
    /\ last.op = "compile"
    /\ last.fetched
    /\ fs[ResourcePath(ModelName, "WEIGHTS", "DT_HALF")] =
            WarmFs[ResourcePath(ModelName, "WEIGHTS", "DT_HALF")]

\* The folder whose revision query failed in the compile just made.
FailedPath ==
    IF last'.err = "tokenizer_query"
    THEN ResourcePath(ModelName, "TOKENIZER", data_type[Owner])
    ELSE ResourcePath(ModelName, "WEIGHTS", data_type[Owner])

\* C20: a compile in which the query of the latest revision fails, for the
\* tokenizer or for the weights, ends with that error, leaves the folder of
\* that resource and its marker exactly as they were, and makes no
\* registration with the engine: what the engine holds, tokenizer and weights
\* loader included, is what it held before that compile.
C20_QueryFailureIsFatal ==
    [][(last'.op = "compile" /\ last'.err \in {"tokenizer_query", "weights_query"})
       => /\ last'.outcome = "error"
          /\ fs'[FailedPath] = fs[FailedPath]
          /\ sess'.compiled = sess.compiled
          /\ sess'.hooks = sess.hooks
          /\ engine' = engine]_vars

\* The weights of an earlier revision lie in the cache with their marker, the
\* repository has moved on and cannot be asked: the stale folder stays and
\* nothing is registered.
C20_Witness ==
    /\ last.op = "compile"
    /\ last.err = "weights_query"
    /\ remote[ModelName] = 2
    /\ fs[ResourcePath(ModelName, "WEIGHTS", "DT_HALF")] =
            WarmFs[ResourcePath(ModelName, "WEIGHTS", "DT_HALF")]
    /\ fs[ResourcePath(ModelName, "WEIGHTS", "DT_HALF")].marker = <<ModelName, 1>>
    /\ data_type[Owner] = "DT_HALF"
    /\ ~engine.loader /\ ~engine.tokenizer

\* The folder of the model's resource kind in f carries the marker of the
\* latest revision: __need_cache_refresh has run on it and returned.
EnsuredFresh(f, kind) ==
    /\ f[ResourcePath(ModelName, kind, data_type[Owner])].exists
    /\ f[ResourcePath(ModelName, kind, data_type[Owner])].marker
            = <<ModelName, remote[ModelName]>>

\* The model's config of the latest revision is in f.
ConfigFetched(f) ==
    /\ f[ConfigDir(ModelName)].files = "full"
    /\ f[ConfigDir(ModelName)].src = <<ModelName, remote[ModelName]>>

\* C25: a compile fetches the config, then ensures the tokenizer, then the
\* weights, then registers the weights loader, then the tokenizer: it changes
\* the tokenizer folder only with the config fetched, the weights folder only
\* with the tokenizer ensured as well, registers the loader only with the
\* weights ensured as well, and the tokenizer only with the loader
\* registered.
C25_CompileOrder ==
    [][last'.op = "compile"
       => /\ fs'[ResourcePath(ModelName, "TOKENIZER", data_type[Owner])]
                # fs[ResourcePath(ModelName, "TOKENIZER", data_type[Owner])]
                => ConfigFetched(fs')
          /\ fs'[ResourcePath(ModelName, "WEIGHTS", data_type[Owner])]
                # fs[ResourcePath(ModelName, "WEIGHTS", data_type[Owner])]
                => ConfigFetched(fs') /\ EnsuredFresh(fs', "TOKENIZER")
          /\ engine'.loader # engine.loader
                => /\ ConfigFetched(fs')
                   /\ EnsuredFresh(fs', "TOKENIZER")
                   /\ EnsuredFresh(fs', "WEIGHTS")
          /\ engine'.tokenizer # engine.tokenizer
                => /\ EnsuredFresh(fs', "TOKENIZER")
                   /\ EnsuredFresh(fs', "WEIGHTS")
                   /\ engine'.loader]_vars

\* A compile on a stale cache refreshed all three and registered the loader,
\* and stopped before the tokenizer's registration.
C25_Witness ==
    /\ last.op = "compile" /\ last.err = "eos"
    /\ remote[ModelName] = 2
    /\ ~refresh_cache[Owner]
    /\ engine.loader /\ ~engine.tokenizer
    /\ ConfigFetched(fs)
    /\ EnsuredFresh(fs, "TOKENIZER")
    /\ EnsuredFresh(fs, "WEIGHTS")

\* The i-th request, as _generate got it, passes the loop body.
Passes(r) ==
    ValidateOne(r, "max_seq_length" \in sess.defined, sess.max_seq_length).err
        = "none"

\* C26: a call of generate invokes the engine at most once; when it does, the
\* batch is the whole sequence of requests as the loop left them and every
\* one of them passed the loop body; when a request of the batch fails, the
\* engine is not invoked at all.
C26_OneBatchAfterValidation ==
    [][last'.op = "generate"
       => /\ engine'.calls \in {engine.calls, engine.calls + 1}
          /\ engine'.calls = engine.calls + 1 <=> last'.dispatched
          /\ last'.dispatched
                => /\ last'.batch = last'.resolved
                   /\ Len(last'.batch) = Len(last'.submitted)
                   /\ Len(last'.batch) > 0
                   /\ \A i \in 1..Len(last'.submitted) :
                          Passes(last'.submitted[i])
          /\ (\E i \in 1..Len(last'.submitted) : ~Passes(last'.submitted[i]))
                => /\ engine' = engine
                   /\ last'.outcome = "error"
                   /\ last'.batch = <<>>]_vars

\* A batch of two whose first request passes and whose second fails was not
\* given to the engine.
C26_Witness ==
    /\ last.op = "generate" /\ last.outcome = "error" /\ last.at = 2
    /\ Len(last.submitted) = 2
    /\ Passes(last.submitted[1])
    /\ ~Passes(last.submitted[2])
    /\ ~last.dispatched
    /\ engine.calls = 0

\* The invariant of a Request: an inference request names at most one of its
\* two bounds, a finetuning request names no max_new_tokens.
RequestInvariant(r) ==
    IF r.req_type = "REQ_INFERENCE"
    THEN r.max_length = Unset \/ r.max_new_tokens = Unset
    ELSE r.max_new_tokens = Unset

\* C27: every request of a batch given to the engine satisfies the invariant
\* of a Request.
C27_DispatchedSatisfyInvariant ==
    (last.op = "generate" /\ last.dispatched)
        => \A i \in 1..Len(last.batch) : RequestInvariant(last.batch[i])

\* A batch of two was dispatched whose first request came with both bounds
\* named and whose second came with none.
C27_Witness ==
    /\ last.op = "generate" /\ last.dispatched
    /\ Len(last.batch) = 2
    /\ last.submitted[1].req_type = "REQ_INFERENCE"
    /\ ~RequestInvariant(last.submitted[1])
    /\ RequestInvariant(last.batch[1])
    /\ last.submitted[2].max_length = Unset
    /\ last.batch[2].max_length # Unset

\* The PeftConfig the checks of the last register call looked at, or would
\* have looked at: the fetched one, or the one built locally.
CheckedConfig ==
    IF Fetches(last.config) THEN FromPretrained(last.config.peft_model_id)
    ELSE LocalLoraConfig(ModelName)

\* C28: a register call with an empty id fails with the empty-id error before
\* anything is fetched, whatever else the config says; one whose PeftConfig
\* was obtained and is not LoRA fails with the unsupported-type error, its
\* base model being another model or not; the mismatch error is raised only
\* for a LoRA config.
C28_ValidationOrder ==
    (RegisterCalled /\ last.config.obj # "None")
        => /\ EmptyId(last.config.peft_model_id)
                => last.err = "ValueError_empty" /\ ~last.fetched
           /\ (~EmptyId(last.config.peft_model_id) /\ last.err # "OSError"
                    /\ CheckedConfig.peft_type # "LORA")
                => last.err = "RuntimeError_type" /\ ~last.checked
           /\ last.err = "RuntimeError_type"
                => ~EmptyId(last.config.peft_model_id)
           /\ last.err = "RuntimeError_base"
                => /\ ~EmptyId(last.config.peft_model_id)
                   /\ CheckedConfig.peft_type = "LORA"

\* An adapter of an unsupported type whose base model is another model was
\* rejected for its type.
C28_Witness ==
    /\ RegisterCalled
    /\ last.config.obj # "None"
    /\ last.fetched
    /\ CheckedConfig.peft_type # "LORA"
    /\ CheckedConfig.base_model_name_or_path # ModelName
    /\ last.err = "RuntimeError_type"

\* The last register call got past the tests of its argument and its id.
RegisterChose ==
    /\ RegisterCalled
    /\ last.config.obj # "None"
    /\ ~EmptyId(last.config.peft_model_id)

\* C29: a register call that got past the id test fetched the adapter's
\* PeftConfig exactly when the adapter is not trainable or does not ask for
\* fresh weights; for a trainable adapter with fresh weights nothing was
\* fetched, none of the checks on the PeftConfig failed, and the PeftConfig
\* stored is a LoRA one whose base model is the session's model.
C29_FetchOrSynthesize ==
    RegisterChose
        => /\ last.fetched
                <=> (~last.config.trainable \/ ~last.config.init_lora_weights)
           /\ (last.config.trainable /\ last.config.init_lora_weights)
                => /\ last.err \notin {"OSError", "RuntimeError_type",
                                      "ValueError_nobase", "RuntimeError_base"}
                   /\ last.err = "none"
                        => /\ InPefts(sess.pefts, last.config)
                           /\ PeftsItem(sess.pefts, last.config).peft_type = "LORA"
                           /\ PeftsItem(sess.pefts, last.config).peft_config
                                = PeftConfig("LORA", ModelName)

\* A new trainable adapter, whose id names the adapter of another model on
\* the hub, was registered without a fetch.
C29_Witness ==
    /\ RegisterChose
    /\ last.config.trainable /\ last.config.init_lora_weights
    /\ last.config.peft_model_id = OtherPeft
    /\ ~last.fetched
    /\ last.err = "none"
    /\ PeftsItem(sess.pefts, last.config).peft_config.base_model_name_or_path
            = ModelName

\* The entry carries a handle, and the engine issued that handle for the
\* entry's key.
HasIssuedHandle(it, e) ==
    /\ "ff_peft_model_id" \in DOMAIN it[2]
    /\ it[2].ff_peft_model_id \in 1..Len(e.adapters)
    /\ e.adapters[it[2].ff_peft_model_id] = it[1]

\* C30: after every step each entry of self.pefts carries a handle the engine
\* issued for its key, no lookup ends with the not-compiled error, and a
\* register call that raises, at whichever line, leaves self.pefts as it was.
C30_RegisterIsAtomic ==
    [][/\ \A it \in sess'.pefts : HasIssuedHandle(it, engine')
       /\ last'.op = "lookup" => last'.err # "RuntimeError_uncompiled"
       /\ (last'.op = "register" /\ last'.err # "none")
            => sess'.pefts = sess.pefts /\ engine'.adapters = engine.adapters]_vars

\* With one adapter registered, the engine's registration of a second one
\* raised after the second one had passed every check.
C30_Witness ==
    /\ RegisterCalled
    /\ last.err = "EngineError_register"
    /\ last.checked
    /\ Cardinality(sess.pefts) = 1
    /\ Len(engine.adapters) = 1
    /\ ~InPefts(sess.pefts, last.config)

\* C31: a register call on a session whose compile has not run to completion
\* ends with an error and leaves no entry for its config in self.pefts.
C31_RegisterBeforeCompileFails ==
    (RegisterCalled /\ ~sess.compiled /\ last.config.obj # "None")
        => /\ last.outcome = "error"
           /\ ~InPefts(sess.pefts, last.config)

\* C32: a call for a model in a local directory that has not been written
\* to since the previous call, which left the folder and its marker, computes
\* the revision of the marker and refreshes nothing, whatever the order
\* os.listdir gives the files in.
C32_UnchangedLocalSourceNoRefresh ==
    (/\ local_dir.isdir
     /\ loc[Owner].ret \in {"True", "False"}
     /\ ~refresh_cache[Owner]
     /\ loc[Owner].existed
     /\ ~loc[Owner].src_changed)
        => /\ loc[Owner].latest_revision = loc[Owner].ff_revision
           /\ loc[Owner].ret = "False"

\* The folder the download function under study works on for process p.
KeyPath(p) == ResourcePath(CallName(func), CallKind(func), data_type[p])

Refs(x) ==
    IF x.t = "Request" THEN {x.ref}
    ELSE {x.elems[i].ref : i \in 1..Len(x.elems)}

\* The call that ended was given Request objects, and the engine got them.
ResolvedRequests ==
    /\ caller = "requests"
    /\ last.op = "generate" /\ last.dispatched

\* C34: every request of a dispatched batch passes the loop body again,
\* unchanged; and a generate call on Request objects that the call before it
\* resolved and dispatched, with max_seq_length as it was, raises nothing,
\* dispatches them and leaves the caller's objects as they were.
C34_ResolutionIsIdempotent ==
    [][/\ (last'.op = "generate" /\ last'.dispatched)
            => \A i \in 1..Len(last'.batch) :
                  ValidateOne(last'.batch[i], TRUE, sess'.max_seq_length)
                      = Validated(last'.batch[i], "none", FALSE)
       /\ (/\ ResolvedRequests
           /\ last'.op = "generate"
           /\ last'.input.t \in {"Request", "list"}
           /\ Refs(last'.input) # {}
           /\ Refs(last'.input) \subseteq Refs(last.input))
            => /\ last'.outcome = "list"
               /\ last'.dispatched
               /\ ~last'.warned
               /\ heap' = heap
               /\ last'.batch = last'.submitted]_vars

\* A request that came with both bounds named and one that came with none
\* were resolved by one call and dispatched again by the next, as resolved.
C34_Witness ==
    /\ ResolvedRequests
    /\ engine.calls = 2
    /\ Len(last.batch) = 2
    /\ last.batch = last.submitted
    /\ \E i \in 1..2 :
          /\ last.batch[i].max_length = Unset
          /\ last.batch[i].max_new_tokens # Unset
    /\ \E i \in 1..2 :
          /\ last.batch[i].max_length = MaxSeqLen - 1
          /\ last.batch[i].max_new_tokens = Unset

(***************************************************************************)
(* Falcon: claims.                                                         *)
(***************************************************************************)
\* The written file of the fused projection's part proj, <<>> when missing.
Piece(proj) ==
    IF \E f \in hf_model.files : f[1] = <<"layers", "0", "self_attention", proj, "weight">>
    THEN (CHOOSE f \in hf_model.files :
            f[1] = <<"layers", "0", "self_attention", proj, "weight">>)[2]
    ELSE <<>>

\* C21 as stated: a fused projection of three times the hidden size is
\* written as q_proj, k_proj and v_proj of the hidden size each, which
\* concatenated give the fused tensor back, whatever the head count.
C21_ThreePiecesOfHiddenSize ==
    (hf_model.converted /\ Len(hf_model.qkv) = 3 * hf_model.hidden_size)
        => /\ hf_model.err = "none"
           /\ Len(Piece("q_proj")) = hf_model.hidden_size
           /\ Len(Piece("k_proj")) = hf_model.hidden_size
           /\ Len(Piece("v_proj")) = hf_model.hidden_size
           /\ Piece("q_proj") \o Piece("k_proj") \o Piece("v_proj") = hf_model.qkv

\* C21, amended: the conversion succeeds exactly when the fused projection
\* has hidden_size + 2 * (hidden_size // n_head) slices; it then writes q_proj
\* of hidden_size slices and k_proj and v_proj of hidden_size // n_head
\* slices each, which concatenated in this order give the fused tensor back.
\* Otherwise the split raises and no part of the projection is written.
C21_SplitRoundTrip ==
    hf_model.converted
        => IF Len(hf_model.qkv) =
                hf_model.hidden_size + 2 * (hf_model.hidden_size \div hf_model.n_head)
           THEN /\ hf_model.err = "none"
                /\ Len(Piece("q_proj")) = hf_model.hidden_size
                /\ Len(Piece("k_proj")) = hf_model.hidden_size \div hf_model.n_head
                /\ Len(Piece("v_proj")) = hf_model.hidden_size \div hf_model.n_head
                /\ Piece("q_proj") \o Piece("k_proj") \o Piece("v_proj")
                        = hf_model.qkv
           ELSE /\ hf_model.err = "RuntimeError"
                /\ \A f \in hf_model.files :
                      f[1][Len(f[1]) - 1] \notin {"q_proj", "k_proj", "v_proj",
                                                  "query_key_value"}

\* A projection of two heads is split into pieces of unequal length and the
\* pieces differ, so their order matters.
C21_Witness ==
    /\ hf_model.converted /\ hf_model.err = "none"
    /\ hf_model.hidden_size = 2 /\ hf_model.n_head = 2
    /\ hf_model.qkv = <<0, 1, 1, 0>>
    /\ Piece("q_proj") = <<0, 1>>
    /\ Piece("k_proj") = <<1>>
    /\ Piece("v_proj") = <<0>>

\* C23: a call of download_peft_adapter_if_needed that reads the revisions
\* decides to refresh the adapter's folder exactly when refresh is forced,
\* the folder is missing, or its marker is not the latest revision of the
\* adapter's own repository.
C23_AdapterComparedWithOwnRevision ==
    [][\A p \in Procs :
          (/\ func = "peft"
           /\ pc[p] = "check"
           /\ pc'[p] \in {"rmtree", "idle"}
           /\ loc'[p].ret # "error")
              => (pc'[p] = "rmtree"
                    <=> \/ refresh_cache[p]
                        \/ ~fs[loc'[p].path].exists
                        \/ fs[loc'[p].path].marker # <<PeftName, remote[PeftName]>>)]_vars

\* C24: a refresh removes the folder if it is there, makes it anew and
\* empty, writes the revision it read as the latest into the marker and
\* populates only then: at each position of the refresh the folder holds
\* exactly what the steps so far left, and when the population has ended the
\* folder holds the marker of that revision and the files of this
\* population, none of an earlier one. For the model's own folders the
\* revision is that of the model's repository.
C24_RefreshStepsInOrder ==
    \A p \in Procs :
        /\ pc[p] = "makedirs" =>
                /\ ~fs[loc[p].path].exists
                /\ loc[p].ops = IF loc[p].existed THEN <<"rmtree">> ELSE <<>>
        /\ pc[p] = "marker" => fs[loc[p].path] = EmptyDir
        /\ pc[p] = "populate" =>
                fs[loc[p].path] = [EmptyDir EXCEPT !.marker = loc[p].latest_revision]
        /\ pc[p] = "convert" =>
                /\ fs[loc[p].path].marker = loc[p].latest_revision
                /\ \/ fs[loc[p].path].files = "none"
                   \/ fs[loc[p].path].src = loc[p].dl
        /\ (pc[p] = "idle" /\ loc[p].ret = "True" /\ fs[loc[p].path].files = "full") =>
                /\ fs[loc[p].path].marker = loc[p].latest_revision
                /\ fs[loc[p].path].src = loc[p].dl
                /\ loc[p].ops = (IF loc[p].existed THEN <<"rmtree">> ELSE <<>>)
                                    \o <<"makedirs", "write">>
                /\ func # "peft" => fs[loc[p].path].marker[1] = CallName(func)

\* A refresh over a folder populated at an earlier revision has ended.
C24_Witness ==
    \E p \in Procs :
        /\ pc[p] = "idle" /\ loc[p].ret = "True"
        /\ func = "tokenizer"
        /\ loc[p].existed
        /\ loc[p].ff_revision = <<ModelName, 1>>
        /\ loc[p].ops = <<"rmtree", "makedirs", "write">>
        /\ fs[loc[p].path] = [exists |-> TRUE, marker |-> <<ModelName, 2>>,
                              files |-> "full", src |-> <<ModelName, 2>>]

(***************************************************************************)
(* The cache under two processes: claims.                                  *)
(***************************************************************************)
\* Process p has removed the folder of its call and has not finished
\* populating it.
InRefresh(p) == pc[p] \in {"makedirs", "marker", "populate", "convert"}

\* C22: while a process is inside the refresh of a folder, from the removal
\* to the end of its population, no step of another process removes, creates
\* or writes that folder.
C22_RefreshIsExclusive ==
    [][\A p \in Procs :
          (InRefresh(p) /\ pc'[p] = pc[p] /\ loc'[p] = loc[p])
              => fs'[loc[p].path] = fs[loc[p].path]]_vars

====
